---- MODULE Spec2Model ----
(***************************************************************************)
(* Position lifecycle and risk gating of the three bots of the repository: *)
(*   RealisticTradingBot  src/attached_assets/realistic_trading_bot_*.js   *)
(*   RelayTradingBot      src/realistic_bot.js                             *)
(*   the enhanced bot     src/unnamed/part_008 (TradeTracker version)      *)
(* The variable `program` says which of them the behaviour is a run of.    *)
(*                                                                         *)
(* Units.  Time is in hours (cooldownAfterLoss = 3600000 ms = 1), a        *)
(* calendar day is DayLength hours.  Money is in thousandths of a dollar,  *)
(* percentages are in basis points, dailyStats.totalRisk is in parts per   *)
(* million; a quotient that is not an integer is rounded down.             *)
(* lastLossTime = 0 stands for null (the code tests !lastLossTime, and the *)
(* clock never reads 0).  A position id `${Date.now()}_${symbol}` is the   *)
(* pair <<idClock, symbol>>: idClock is the millisecond reading, which is  *)
(* different at every open of one symbol (the opens of one symbol are a    *)
(* candle, or a 30 s loop iteration, apart).                               *)
(***************************************************************************)
EXTENDS Integers, Sequences, FiniteSets, TLC

VARIABLES
    program,              \* which bot runs
    config,               \* this.config
    now,                  \* Date.now(), in hours
    idClock,              \* number of positions opened so far (id source)
    isRunning,            \* state.isRunning / this.isRunning
    exited,               \* the process has called process.exit
    currentPositions,     \* state.currentPositions
    dailyStats,           \* state.dailyStats
    consecutiveLosses,    \* state.consecutiveLosses / this.consecutiveLosses
    lastLossTime,         \* state.lastLossTime (0 = null)
    subPortfolioBalances, \* state.subPortfolioBalances
    tradingData,          \* last close of state.tradingData[symbol] (0 = none)
    ledger,               \* logs/trades.json: one record per saveTrade
    timers,               \* ids whose setTimeout close is armed in this process
    shutdown,             \* RelayTradingBot: where gracefulShutdown stands
    startTime,            \* RelayTradingBot: this.startTime
    loopAt,               \* RelayTradingBot: what the trading loop awaits
    stateFile,            \* RelayTradingBot: state.json
    sessions,             \* processes started so far
    sessionTrades,        \* enhanced bot: tracker.sessionTrades (= trades file)
    botState,             \* enhanced bot: this.state
    botStateFile,         \* enhanced bot: logs/bot_state.json
    priceSeries,          \* the closes of state.tradingData[symbol], oldest first
    analysis,             \* what analyzeMarket computed from them
    sim,                  \* runBotSimulation / simulateStrategy: the locals of a run
    manager,              \* ConfigurationManager: state, files and emitted events
    alertSystem,          \* AlertSystem: state, the calls awaiting delivery, the alerts sent
    api                   \* BinanceAPI: state.websockets, the sockets and the reconnect timers

riskVars == <<currentPositions, dailyStats, consecutiveLosses, lastLossTime,
              subPortfolioBalances, ledger>>
relayVars == <<timers, shutdown, startTime, stateFile, sessions>>
enhVars == <<sessionTrades, botState, botStateFile>>
\* what the bots' handlers never write: the program, its configuration, and
\* the input and result of an indicator computation
\* the state of the components beside the bots
componentVars == <<sim, manager, alertSystem, api>>
staticVars == <<program, config, priceSeries, analysis, componentVars>>
botVars == <<loopAt, now, idClock, isRunning, exited, riskVars, tradingData,
            relayVars, enhVars>>
vars == <<staticVars, botVars>>

\* null / undefined where a number is expected
NoValue == -1

(***************************************************************************)
(* Bounds of the model.                                                    *)
(***************************************************************************)
MaxTrades == 4
MaxRelayTrades == 4
MaxSessions == 2
MaxEnhancedTrades == 6

\* The instants at which the clock is read: the last hour of day 0, the
\* first of day 1 (one hour later: a cooldown of one hour is not yet over),
\* and five hours after that (past the cooldown and the trailing-stop delay).
Clock == <<23, 24, 29>>

Symbols == {"BTCUSDT"}
PriceLevels == {44200, 45000, 45225}
SignalPrices == {45000}
VolatilityLevels == {200}

(***************************************************************************)
(* Configuration defaults (constructor of RealisticTradingBot and of       *)
(* RelayTradingBot, the same values in both).                              *)
(***************************************************************************)
DayLength == 24
totalCapital == 10000000
maxPositionPercent == 500
maxDailyRisk == 20000
\* the fields of this.config that the validation rules are about (counts
\* and basis points); `...config` gives every key of the constructor's
\* argument precedence over the `||` defaults
defaultConfig ==
    [subPortfolios |-> 4, dailyTargetMin |-> 30, dailyTargetMax |-> 50,
     stopLossPercent |-> 150]
subPortfolios == config.subPortfolios
dailyTargetMin == config.dailyTargetMin
dailyTargetMax == config.dailyTargetMax
stopLossPercent == config.stopLossPercent
maxTradesPerDay == 3
maxConsecutiveLosses == 3
cooldownAfterLoss == 1
trailingStopHours == 4
\* (dailyStats.date is the UTC date string of the clock reading; DayLength is
\* the length of a day on the clock, trailingStopHours the 4 * hourInMs of
\* shouldTrailingStop)

Portfolios == 1..subPortfolios

Day(t) == t \div DayLength

Min(a, b) == IF a < b THEN a ELSE b
Max(a, b) == IF a > b THEN a ELSE b

Range(s) == {s[i] : i \in 1..Len(s)}

RemoveAt(s, i) == SubSeq(s, 1, i - 1) \o SubSeq(s, i + 1, Len(s))

(***************************************************************************)
(* RealisticTradingBot                                                     *)
(***************************************************************************)
initSubPortfolios ==
    [i \in Portfolios |->
        [balance |-> totalCapital \div subPortfolios,
         activePositions |-> 0]]

initDailyStats(t) ==
    [date |-> Day(t), tradesCount |-> 0, profitLoss |-> 0, winRate |-> 0,
     wins |-> 0, losses |-> 0, totalRisk |-> 0]

\* The mutable state the operations below read and write, as one record.
State ==
    [currentPositions |-> currentPositions, dailyStats |-> dailyStats,
     consecutiveLosses |-> consecutiveLosses, lastLossTime |-> lastLossTime,
     subPortfolioBalances |-> subPortfolioBalances, ledger |-> ledger]

SetState(st) ==
    /\ currentPositions' = st.currentPositions
    /\ dailyStats' = st.dailyStats
    /\ consecutiveLosses' = st.consecutiveLosses
    /\ lastLossTime' = st.lastLossTime
    /\ subPortfolioBalances' = st.subPortfolioBalances
    /\ ledger' = st.ledger

\* Faulty variant of getAvailablePortfolio: the filter on activePositions is
\* dropped, the sub-portfolio of lowest balance is returned even when busy.
getAvailablePortfolio_IgnoresActive(st) ==
    CHOOSE i \in Portfolios : \A j \in Portfolios :
        \/ st.subPortfolioBalances[i].balance < st.subPortfolioBalances[j].balance
        \/ /\ st.subPortfolioBalances[i].balance = st.subPortfolioBalances[j].balance
           /\ i <= j

\* Object.entries(subPortfolioBalances): the keys in insertion order,
\* portfolio_1 first
portfolioEntries == [i \in 1..subPortfolios |-> i]

\* .sort((a, b) => a[1].balance - b[1].balance) as an insertion of entry e
\* into the sorted sequence: Array.prototype.sort is stable, e goes after
\* the entries whose balance is not greater than its own
insertByBalance(st, sorted, e) ==
    LET before == {k \in 1..Len(sorted) :
                     \A m \in 1..k :
                        st.subPortfolioBalances[sorted[m]].balance
                            <= st.subPortfolioBalances[e].balance}
        n == Cardinality(before)
    IN  SubSeq(sorted, 1, n) \o <<e>> \o SubSeq(sorted, n + 1, Len(sorted))

RECURSIVE sortByBalance(_, _)
sortByBalance(st, entries) ==
    IF entries = <<>> THEN <<>>
    ELSE insertByBalance(st, sortByBalance(st, SubSeq(entries, 1, Len(entries) - 1)),
                         entries[Len(entries)])

\* Faulty variant of getAvailablePortfolio: the last entry of the sorted
\* array, the idle sub-portfolio of greatest balance, is returned.
getAvailablePortfolio_Greatest(st) ==
    LET idle(i) == st.subPortfolioBalances[i].activePositions = 0
        available == sortByBalance(st, SelectSeq(portfolioEntries, idle))
    IN  IF available = <<>> THEN 0 ELSE available[Len(available)]

\* 0 stands for null: available.length > 0 ? available[0][0] : null
getAvailablePortfolio(st) ==
    LET idle(i) == st.subPortfolioBalances[i].activePositions = 0
        available == sortByBalance(st, SelectSeq(portfolioEntries, idle))
    IN  IF available = <<>> THEN 0 ELSE available[1]

\* Faulty variant of cooldownOver: the cooldown ends at, not after,
\* cooldownAfterLoss.
cooldownOver_AtBoundary(st, t) ==
    st.lastLossTime = 0 \/ (t - st.lastLossTime) >= cooldownAfterLoss

cooldownOver(st, t) ==
    st.lastLossTime = 0 \/ (t - st.lastLossTime) > cooldownAfterLoss

\* Faulty variant of canTrade: the check of consecutiveLosses is missing.
canTrade_NoLossGate(st, t) ==
    /\ st.dailyStats.tradesCount < maxTradesPerDay
    /\ cooldownOver(st, t)
    /\ st.dailyStats.totalRisk < maxDailyRisk
    /\ getAvailablePortfolio(st) # 0

\* Faulty variant of canTrade: the daily risk check is missing.
canTrade_NoRiskGate(st, t) ==
    /\ st.dailyStats.tradesCount < maxTradesPerDay
    /\ st.consecutiveLosses < maxConsecutiveLosses
    /\ cooldownOver(st, t)
    /\ getAvailablePortfolio(st) # 0

canTrade(st, t) ==
    /\ st.dailyStats.tradesCount < maxTradesPerDay
    /\ st.consecutiveLosses < maxConsecutiveLosses
    /\ cooldownOver(st, t)
    /\ st.dailyStats.totalRisk < maxDailyRisk
    /\ getAvailablePortfolio(st) # 0

\* Faulty variant of calculatePositionSize: 1 / volatility is clamped from
\* above only, the lower limit 0.5 is missing.
calculatePositionSize_NoLowerClamp(st, portfolioId, volatility) ==
    LET balance == st.subPortfolioBalances[portfolioId].balance
        baseSize == (balance * maxPositionPercent) \div 10000
        volatilityAdjustment ==
            IF volatility = 0 THEN 150 ELSE Min(150, 1000000 \div volatility)
        adjustedSize ==
            (((baseSize * volatilityAdjustment) \div 100) * stopLossPercent) \div 200
    IN  Min(adjustedSize, balance \div 10)

\* volatility in basis points; 1 / 0 is Infinity, clamped to 1.5
calculatePositionSize(st, portfolioId, volatility) ==
    LET balance == st.subPortfolioBalances[portfolioId].balance
        baseSize == (balance * maxPositionPercent) \div 10000
        volatilityAdjustment ==
            IF volatility = 0 THEN 150
            ELSE Max(50, Min(150, 1000000 \div volatility))
        adjustedSize ==
            (((baseSize * volatilityAdjustment) \div 100) * stopLossPercent) \div 200
    IN  Min(adjustedSize, balance \div 10)

\* Faulty variant of executeTrade: the prices of a SELL are not mirrored,
\* they are those of a BUY.
executeTrade_SellNotMirrored(st, direction, symbol, price, volatility, t, id) ==
    LET portfolioId == getAvailablePortfolio(st)
        positionSize == calculatePositionSize(st, portfolioId, volatility)
        trade ==
            [id |-> <<id, symbol>>, timestamp |-> t, symbol |-> symbol,
             portfolioId |-> portfolioId, direction |-> direction,
             entryPrice |-> price, positionSize |-> positionSize,
             stopLossPrice |-> (price * (10000 - stopLossPercent)) \div 10000,
             takeProfitPrice |-> (price * (10000 + dailyTargetMax)) \div 10000]
    IN  IF portfolioId = 0 THEN st
        ELSE [st EXCEPT
                !.currentPositions = Append(@, trade),
                !.subPortfolioBalances[portfolioId].activePositions = @ + 1,
                !.dailyStats.tradesCount = @ + 1,
                !.dailyStats.totalRisk =
                    @ + (positionSize * 100) \div (totalCapital \div 10000)]

\* Faulty variant of executeTrade: without an available sub-portfolio the
\* trade is opened on the first one.
executeTrade_FallsBackToFirst(st, direction, symbol, price, volatility, t, id) ==
    LET portfolioId == IF getAvailablePortfolio(st) = 0 THEN 1
                       ELSE getAvailablePortfolio(st)
        positionSize == calculatePositionSize(st, portfolioId, volatility)
        trade ==
            [id |-> <<id, symbol>>, timestamp |-> t, symbol |-> symbol,
             portfolioId |-> portfolioId, direction |-> direction,
             entryPrice |-> price, positionSize |-> positionSize,
             stopLossPrice |->
                IF direction = "BUY"
                THEN (price * (10000 - stopLossPercent)) \div 10000
                ELSE (price * (10000 + stopLossPercent)) \div 10000,
             takeProfitPrice |->
                IF direction = "BUY"
                THEN (price * (10000 + dailyTargetMax)) \div 10000
                ELSE (price * (10000 - dailyTargetMax)) \div 10000]
    IN  [st EXCEPT
            !.currentPositions = Append(@, trade),
            !.subPortfolioBalances[portfolioId].activePositions = @ + 1,
            !.dailyStats.tradesCount = @ + 1,
            !.dailyStats.totalRisk =
                @ + (positionSize * 100) \div (totalCapital \div 10000)]

executeTrade(st, direction, symbol, price, volatility, t, id) ==
    LET portfolioId == getAvailablePortfolio(st)
        positionSize == calculatePositionSize(st, portfolioId, volatility)
        trade ==
            [id |-> <<id, symbol>>, timestamp |-> t, symbol |-> symbol,
             portfolioId |-> portfolioId, direction |-> direction,
             entryPrice |-> price, positionSize |-> positionSize,
             stopLossPrice |->
                IF direction = "BUY"
                THEN (price * (10000 - stopLossPercent)) \div 10000
                ELSE (price * (10000 + stopLossPercent)) \div 10000,
             takeProfitPrice |->
                IF direction = "BUY"
                THEN (price * (10000 + dailyTargetMax)) \div 10000
                ELSE (price * (10000 - dailyTargetMax)) \div 10000]
    IN  IF portfolioId = 0 THEN st
        ELSE [st EXCEPT
                !.currentPositions = Append(@, trade),
                !.subPortfolioBalances[portfolioId].activePositions = @ + 1,
                !.dailyStats.tradesCount = @ + 1,
                !.dailyStats.totalRisk =
                    @ + (positionSize * 100) \div (totalCapital \div 10000)]

\* Faulty variant of calculateUnrealizedPnL: the direction is ignored, the
\* price change is that of a BUY.
calculateUnrealizedPnL_IgnoresDirection(position, currentPrice) ==
    LET priceChange == currentPrice - position.entryPrice
    IN  (priceChange * position.positionSize) \div position.entryPrice

calculateUnrealizedPnL(position, currentPrice) ==
    LET priceChange == IF position.direction = "BUY"
                       THEN currentPrice - position.entryPrice
                       ELSE position.entryPrice - currentPrice
    IN  (priceChange * position.positionSize) \div position.entryPrice

closedTrade(st, position, exitPrice, realizedPnL, reason, t) ==
    [id |-> position.id, portfolioId |-> position.portfolioId,
     exitPrice |-> exitPrice, realizedPnL |-> realizedPnL, reason |-> reason,
     status |-> "CLOSED"]

\* Faulty variant of recordClose: a close at exactly 0 counts as a win.
recordClose_ZeroIsWin(st, realizedPnL, t) ==
    LET won == realizedPnL >= 0
        wins == st.dailyStats.wins + (IF won THEN 1 ELSE 0)
        losses == st.dailyStats.losses + (IF won THEN 0 ELSE 1)
    IN  [st EXCEPT
            !.dailyStats.profitLoss = @ + realizedPnL,
            !.dailyStats.wins = wins,
            !.dailyStats.losses = losses,
            !.dailyStats.winRate = (wins * 100) \div (wins + losses),
            !.consecutiveLosses = IF won THEN 0 ELSE @ + 1,
            !.lastLossTime = IF won THEN @ ELSE t]

\* The risk counters and daily statistics after a close with realizedPnL
\* (winRate in percent).
recordClose(st, realizedPnL, t) ==
    LET won == realizedPnL > 0
        wins == st.dailyStats.wins + (IF won THEN 1 ELSE 0)
        losses == st.dailyStats.losses + (IF won THEN 0 ELSE 1)
    IN  [st EXCEPT
            !.dailyStats.profitLoss = @ + realizedPnL,
            !.dailyStats.wins = wins,
            !.dailyStats.losses = losses,
            !.dailyStats.winRate = (wins * 100) \div (wins + losses),
            !.consecutiveLosses = IF won THEN 0 ELSE @ + 1,
            !.lastLossTime = IF won THEN @ ELSE t]

closePosition(st, index, exitPrice, reason, t) ==
    LET position == st.currentPositions[index]
        realizedPnL == calculateUnrealizedPnL(position, exitPrice)
        s1 == [st EXCEPT
                 !.subPortfolioBalances[position.portfolioId].balance = @ + realizedPnL,
                 !.subPortfolioBalances[position.portfolioId].activePositions = @ - 1]
        s2 == recordClose(s1, realizedPnL, t)
    IN  [s2 EXCEPT
            !.currentPositions = RemoveAt(@, index),
            !.ledger = Append(@, closedTrade(s2, position, exitPrice, realizedPnL, reason, t))]

shouldStopLoss(position, currentPrice) ==
    IF position.direction = "BUY"
    THEN currentPrice <= position.stopLossPrice
    ELSE currentPrice >= position.stopLossPrice

\* Faulty variant of shouldTakeProfit: the price has to pass the take-profit
\* price, reaching it is not enough.
shouldTakeProfit_Strict(position, currentPrice) ==
    IF position.direction = "BUY"
    THEN currentPrice > position.takeProfitPrice
    ELSE currentPrice < position.takeProfitPrice

shouldTakeProfit(position, currentPrice) ==
    IF position.direction = "BUY"
    THEN currentPrice >= position.takeProfitPrice
    ELSE currentPrice <= position.takeProfitPrice

\* pnLPercent < 0.001, with pnLPercent = unrealizedPnL / positionSize
shouldTrailingStop(position, currentPrice, t) ==
    /\ t - position.timestamp > trailingStopHours
    /\ calculateUnrealizedPnL(position, currentPrice) * 1000 < position.positionSize

\* Faulty variant of managePosition: the stagnation exit is tested before
\* the stop-loss.
managePosition_TrailingFirst(st, k, data, t) ==
    LET position == st.currentPositions[k]
        currentPrice == data[position.symbol]
    IN  IF currentPrice = 0 THEN st
        ELSE IF shouldTrailingStop(position, currentPrice, t)
             THEN closePosition(st, k, currentPrice, "TRAILING_STOP", t)
        ELSE IF shouldStopLoss(position, currentPrice)
             THEN closePosition(st, k, currentPrice, "STOP_LOSS", t)
        ELSE IF shouldTakeProfit(position, currentPrice)
             THEN closePosition(st, k, currentPrice, "TAKE_PROFIT", t)
        ELSE st

\* The callback of managePositions for the position at index k: no price
\* yet for its symbol, else stop-loss, else take-profit, else trailing stop.
managePosition(st, k, data, t) ==
    LET position == st.currentPositions[k]
        currentPrice == data[position.symbol]
    IN  IF currentPrice = 0 THEN st
        ELSE IF shouldStopLoss(position, currentPrice)
             THEN closePosition(st, k, currentPrice, "STOP_LOSS", t)
        ELSE IF shouldTakeProfit(position, currentPrice)
             THEN closePosition(st, k, currentPrice, "TAKE_PROFIT", t)
        ELSE IF shouldTrailingStop(position, currentPrice, t)
             THEN closePosition(st, k, currentPrice, "TRAILING_STOP", t)
        ELSE st

\* currentPositions.forEach(callback): the callback runs for the indexes
\* 1..n of the array as it was at the call (n its length then), each looked
\* up in the array as it is at that moment; an index past the end is skipped.
RECURSIVE managePositionsFrom(_, _, _, _, _)
managePositionsFrom(st, k, n, data, t) ==
    IF k > n \/ k > Len(st.currentPositions) THEN st
    ELSE managePositionsFrom(managePosition(st, k, data, t), k + 1, n, data, t)

managePositions(st, data, t) ==
    managePositionsFrom(st, 1, Len(st.currentPositions), data, t)

\* Faulty variant of saveDailyStats: the new day also clears the loss
\* counters.
saveDailyStats_ResetsCounters(st, t) ==
    IF st.dailyStats.date # Day(t)
    THEN [st EXCEPT !.dailyStats = initDailyStats(t),
                    !.consecutiveLosses = 0,
                    !.lastLossTime = 0]
    ELSE st

saveDailyStats(st, t) ==
    IF st.dailyStats.date # Day(t)
    THEN [st EXCEPT !.dailyStats = initDailyStats(t)]
    ELSE st

\* stop(): currentPositions.forEach closes with reason BOT_STOPPED
RECURSIVE stopFrom(_, _, _, _, _)
stopFrom(st, k, n, data, t) ==
    IF k > n \/ k > Len(st.currentPositions) THEN st
    ELSE LET position == st.currentPositions[k]
             currentPrice == data[position.symbol]
             next == IF currentPrice = 0 THEN st
                     ELSE closePosition(st, k, currentPrice, "BOT_STOPPED", t)
         IN  stopFrom(next, k + 1, n, data, t)

stop(st, data, t) == stopFrom(st, 1, Len(st.currentPositions), data, t)

\* start(): the websockets are connected and the intervals armed.
Start ==
    /\ program = "RealisticTradingBot"
    /\ ~exited /\ ~isRunning /\ shutdown = "no"
    /\ isRunning' = TRUE
    /\ UNCHANGED <<enhVars, staticVars, loopAt, now, idClock, exited, riskVars, tradingData, relayVars>>

\* ws.on('message') -> processMarketData: a closed candle of `symbol` at
\* `close`; the indicators of analyzeMarket and shouldTrade are inputs:
\* direction "NONE" is no analysis or no signal (score < 60).
processMarketData(symbol, close, direction, volatility) ==
    /\ program = "RealisticTradingBot"
    /\ ~exited
    /\ isRunning \/ shutdown = "stopped"
    /\ tradingData' = [tradingData EXCEPT ![symbol] = close]
    /\ IF direction # "NONE" /\ canTrade(State, now) /\ idClock < MaxTrades
       THEN /\ SetState(executeTrade(State, direction, symbol, close, volatility,
                                     now, idClock + 1))
            /\ idClock' = idClock + 1
       ELSE /\ SetState(State)
            /\ idClock' = idClock
    /\ UNCHANGED <<enhVars, staticVars, loopAt, now, isRunning, exited, relayVars>>

\* setInterval(..., 30000): managePositions(); saveDailyStats()
PeriodicTick ==
    /\ program = "RealisticTradingBot"
    /\ ~exited /\ isRunning
    /\ SetState(saveDailyStats(managePositions(State, tradingData, now), now))
    /\ UNCHANGED <<enhVars, staticVars, loopAt, now, idClock, isRunning, exited, tradingData, relayVars>>

\* stop(), called by the SIGINT handler
Stop ==
    /\ program = "RealisticTradingBot"
    /\ ~exited /\ isRunning
    /\ isRunning' = FALSE
    /\ SetState(stop(State, tradingData, now))
    /\ shutdown' = "stopped"
    /\ UNCHANGED <<enhVars, staticVars, loopAt, now, idClock, exited, tradingData, timers, startTime,
                   stateFile, sessions>>

\* setTimeout(() => process.exit(0), 2000) of the SIGINT handler
Exit ==
    /\ program = "RealisticTradingBot"
    /\ ~exited /\ ~isRunning /\ shutdown = "stopped"
    /\ exited' = TRUE
    /\ UNCHANGED <<enhVars, staticVars, loopAt, now, idClock, isRunning, riskVars, tradingData, relayVars>>

\* No time passes between the constructor and startTrading() / start(),
\* which the script calls in the same turn.
AdvanceTime ==
    /\ program = "RealisticTradingBot" => ~exited
    /\ program = "RelayTradingBot" => (exited \/ isRunning \/ shutdown # "no")
    /\ program = "EnhancedBot" => (exited \/ isRunning)
    /\ \E i \in 1..(Len(Clock) - 1) : now = Clock[i] /\ now' = Clock[i + 1]
    /\ UNCHANGED <<enhVars, staticVars, loopAt, idClock, isRunning, exited, riskVars, tradingData,
                   relayVars>>


(***************************************************************************)
(* RelayTradingBot                                                         *)
(***************************************************************************)
\* config.symbols, in the order of the trading loop (two of the three
\* default symbols)
RelaySymbols == <<"BTCUSDT", "ETHUSDT">>

\* analysis.currentPrice of the generated market data: the basePrice of
\* BTCUSDT, taken for every symbol (the close logic reads no other price).
\* PriceMoves is the exit price entryPrice * (1 + priceMovement) less the
\* entry price, for two draws of priceMovement = (Math.random() - 0.5) * 0.02:
\* -0.5 % and +0.5 %.
RelayPrice == 43000
PriceMoves == {-215, 215}

\* the price moves drawn by the iterations of a close loop
MoveSeqs == [1..Len(currentPositions) -> PriceMoves]

\* the k-th symbol of config.symbols, in order, that is in `signals`
SymbolIndex(signals, k) ==
    CHOOSE i \in 1..Len(RelaySymbols) :
        /\ RelaySymbols[i] \in signals
        /\ Cardinality({j \in 1..i : RelaySymbols[j] \in signals}) = k

Relay_canTrade(st, t) ==
    /\ st.dailyStats.tradesCount < maxTradesPerDay
    /\ st.consecutiveLosses < maxConsecutiveLosses
    /\ cooldownOver(st, t)

\* quantity 0.01: positionSize in thousandths of a dollar is entryPrice * 10.
\* timestamp is the Date.now() of the id, kept as the same reading.
executeSimulatedTrade(st, symbol, t, id) ==
    LET trade ==
            [id |-> <<id, symbol>>, timestamp |-> id, symbol |-> symbol,
             portfolioId |-> 0, direction |-> "BUY",
             entryPrice |-> RelayPrice, positionSize |-> RelayPrice * 10,
             stopLossPrice |-> (RelayPrice * (10000 - stopLossPercent)) \div 10000,
             takeProfitPrice |-> (RelayPrice * (10000 + dailyTargetMax)) \div 10000]
    IN  [st EXCEPT !.currentPositions = Append(@, trade),
                   !.dailyStats.tradesCount = @ + 1]

\* 0 when findIndex returns -1
findIndex(positions, id) ==
    IF \E i \in 1..Len(positions) : positions[i].id = id
    THEN CHOOSE i \in 1..Len(positions) :
            /\ positions[i].id = id
            /\ \A j \in 1..(i - 1) : positions[j].id # id
    ELSE 0

\* realizedPnL = (exitPrice - entryPrice) * quantity, in thousandths of a dollar
closeSimulatedPosition(st, position, move, t) ==
    LET index == findIndex(st.currentPositions, position.id)
        exitPrice == position.entryPrice + move
        realizedPnL == (exitPrice - position.entryPrice) * 10
        s2 == recordClose(st, realizedPnL, t)
        reason == IF realizedPnL > 0 THEN "TAKE_PROFIT" ELSE "STOP_LOSS"
    IN  IF index = 0 THEN st
        ELSE [s2 EXCEPT
                !.currentPositions = RemoveAt(@, index),
                !.ledger = Append(@, closedTrade(s2, position, exitPrice,
                                                 realizedPnL, reason, t))]

\* for (const position of this.state.currentPositions): the array iterator
\* reads index i of the array as it is at that moment, while i < its length.
RECURSIVE closeLoop(_, _, _, _)
closeLoop(st, i, moves, t) ==
    IF i > Len(st.currentPositions) THEN st
    ELSE closeLoop(closeSimulatedPosition(st, st.currentPositions[i], moves[i], t),
                   i + 1, moves, t)

resetDailyStats(st, t) ==
    IF st.dailyStats.date # Day(t)
    THEN [st EXCEPT !.dailyStats = initDailyStats(t)]
    ELSE st

\* config.maxRuntime (5 h 57 min) and the age below which loadPreviousState
\* restores a snapshot (24 h), on the hour grid of the clock
maxRuntime == 6
maxStateAge == 24

\* Faulty variant of getRuntimeInfo: shouldStop only once the runtime is
\* over maxRuntime.
getRuntimeInfo_StopsLate(start, t) ==
    maxRuntime - (t - start) < 0

\* getRuntimeInfo().shouldStop: remaining = maxRuntime - runtime <= 0
getRuntimeInfo(start, t) ==
    maxRuntime - (t - start) <= 0

\* the state of a process the constructor has just initialised
freshState(t) ==
    [currentPositions |-> <<>>, dailyStats |-> initDailyStats(t),
     consecutiveLosses |-> 0, lastLossTime |-> 0,
     subPortfolioBalances |-> initSubPortfolios, ledger |-> ledger]

\* JSON.parse(readFileSync(stateFile)) returns and the object has its
\* relayInfo: false for a file whose text is not the JSON of a snapshot,
\* which the try block leaves by an exception
parses(file) == "lastHandoff" \in DOMAIN file

\* Faulty variant of loadPreviousState: the loss counters of the snapshot
\* are not taken over.
loadPreviousState_ForgetsLosses(st, file, t) ==
    IF ~file.exists THEN st
    ELSE IF ~parses(file) THEN st
    ELSE IF t - file.lastHandoff < maxStateAge
         THEN [st EXCEPT
                 !.currentPositions = file.currentPositions,
                 !.dailyStats = file.dailyStats,
                 !.subPortfolioBalances = file.subPortfolioBalances]
         ELSE resetDailyStats(st, t)

\* Faulty variant of loadPreviousState: a snapshot that is too old still
\* gives its loss counters.
loadPreviousState_StaleKeepsLosses(st, file, t) ==
    IF ~file.exists THEN st
    ELSE IF ~parses(file) THEN st
    ELSE IF t - file.lastHandoff < maxStateAge
         THEN [st EXCEPT
                 !.currentPositions = file.currentPositions,
                 !.dailyStats = file.dailyStats,
                 !.consecutiveLosses = file.consecutiveLosses,
                 !.lastLossTime = file.lastLossTime,
                 !.subPortfolioBalances = file.subPortfolioBalances]
         ELSE [resetDailyStats(st, t) EXCEPT
                 !.consecutiveLosses = file.consecutiveLosses,
                 !.lastLossTime = file.lastLossTime]

\* no file: first session; a file that does not parse: the catch block logs
\* and the state stays as constructed
loadPreviousState(st, file, t) ==
    IF ~file.exists THEN st
    ELSE IF ~parses(file) THEN st
    ELSE IF t - file.lastHandoff < maxStateAge
         THEN [st EXCEPT
                 !.currentPositions = file.currentPositions,
                 !.dailyStats = file.dailyStats,
                 !.consecutiveLosses = file.consecutiveLosses,
                 !.lastLossTime = file.lastLossTime,
                 !.subPortfolioBalances = file.subPortfolioBalances]
         ELSE resetDailyStats(st, t)

saveState(st, t) ==
    [exists |-> TRUE, currentPositions |-> st.currentPositions,
     dailyStats |-> st.dailyStats, consecutiveLosses |-> st.consecutiveLosses,
     lastLossTime |-> st.lastLossTime,
     subPortfolioBalances |-> st.subPortfolioBalances, lastHandoff |-> t]

\* startTrading(), up to the loop: isRunning = true; resetDailyStats()
startTrading ==
    /\ program = "RelayTradingBot"
    /\ ~exited /\ ~isRunning /\ shutdown = "no"
    /\ isRunning' = TRUE
    /\ SetState(resetDailyStats(State, now))
    /\ UNCHANGED <<enhVars, staticVars, loopAt, now, idClock, exited, tradingData, relayVars>>

\* gracefulShutdown() up to its first await: isRunning = false and the
\* close loop.  moves[i] is the price move drawn for the i-th iteration.
gracefulShutdown(moves) ==
    /\ isRunning' = FALSE
    /\ SetState(closeLoop(State, 1, moves, now))
    /\ shutdown' = "waiting"
    /\ UNCHANGED <<enhVars, staticVars, loopAt, now, idClock, exited, tradingData, timers, startTime,
                   stateFile, sessions>>

\* One iteration of the while loop of startTrading.  `signals` is the set of
\* symbols for which shouldTrade returns a signal.  The setTimeout closes of
\* the previous iteration (10 to 30 s) have fired before the 30 s sleep ends.
RECURSIVE openSignals(_, _, _, _, _)
openSignals(st, k, signals, t, id) ==
    IF k > Len(RelaySymbols) THEN st
    ELSE IF RelaySymbols[k] \in signals
         THEN openSignals(executeSimulatedTrade(st, RelaySymbols[k], t, id),
                          k + 1, signals, t, id + 1)
         ELSE openSignals(st, k + 1, signals, t, id)

tradingLoop(signals, moves) ==
    /\ program = "RelayTradingBot"
    /\ ~exited /\ isRunning /\ shutdown = "no" /\ timers = {}
    /\ IF getRuntimeInfo(startTime, now)
       THEN gracefulShutdown(moves)
       ELSE IF Relay_canTrade(State, now)
            THEN /\ idClock + Cardinality(signals) <= MaxRelayTrades
                 /\ SetState(openSignals(State, 1, signals, now, idClock + 1))
                 /\ idClock' = idClock + Cardinality(signals)
                 /\ timers' = timers \cup
                        {<<idClock + k, RelaySymbols[SymbolIndex(signals, k)]>> :
                            k \in 1..Cardinality(signals)}
                 /\ UNCHANGED <<enhVars, staticVars, loopAt, now, isRunning, exited, tradingData,
                                shutdown, startTime, stateFile, sessions>>
            ELSE UNCHANGED vars

\* the setTimeout armed by executeSimulatedTrade fires
timerClose(id, move) ==
    /\ program = "RelayTradingBot"
    /\ ~exited /\ id \in timers
    /\ timers' = timers \ {id}
    /\ IF findIndex(currentPositions, id) = 0
       THEN SetState(State)
       ELSE SetState(closeSimulatedPosition(
                State, currentPositions[findIndex(currentPositions, id)], move, now))
    /\ UNCHANGED <<enhVars, staticVars, loopAt, now, idClock, isRunning, exited, tradingData,
                   shutdown, startTime, stateFile, sessions>>

\* process.on('SIGINT' / 'SIGTERM'): gracefulShutdown()
signalShutdown(moves) ==
    /\ program = "RelayTradingBot"
    /\ ~exited /\ isRunning /\ shutdown = "no"
    /\ gracefulShutdown(moves)

\* gracefulShutdown after the 2 s wait: saveState() writes state.json ...
shutdownSave ==
    /\ program = "RelayTradingBot"
    /\ ~exited /\ shutdown = "waiting"
    /\ stateFile' = saveState(State, now)
    /\ shutdown' = "committing"
    /\ UNCHANGED <<enhVars, staticVars, loopAt, now, idClock, isRunning, exited, riskVars, tradingData,
                   timers, startTime, sessions>>

\* ... and, once commitStateToGitHub has settled, process.exit(0)
shutdownExit ==
    /\ program = "RelayTradingBot"
    /\ ~exited /\ shutdown = "committing"
    /\ exited' = TRUE
    /\ timers' = {}
    /\ UNCHANGED <<enhVars, staticVars, loopAt, now, idClock, isRunning, riskVars, tradingData,
                   shutdown, startTime, stateFile, sessions>>

\* the next relay session: new RelayTradingBot(config)
newSession ==
    /\ program = "RelayTradingBot"
    /\ exited /\ sessions < MaxSessions
    /\ exited' = FALSE
    /\ isRunning' = FALSE
    /\ shutdown' = "no"
    /\ startTime' = now
    /\ sessions' = sessions + 1
    /\ SetState(loadPreviousState(freshState(now), stateFile, now))
    /\ UNCHANGED <<enhVars, staticVars, loopAt, now, idClock, tradingData, timers, stateFile>>


(***************************************************************************)
(* The enhanced bot (TradeTracker and RealisticTradingBot of part_008).    *)
(* saveTrades() rewrites the trades file at every change of sessionTrades, *)
(* so the file and the array are one variable.  lastTradeDate = -1 is null.*)
(***************************************************************************)
DAILY_LIMIT == 5
MAX_CONSECUTIVE_LOSSES == 3

\* pnl = (exitPrice - entryPrice) * DEFAULT_AMOUNT * pnlMultiplier for two
\* draws of the price change, in thousandths of a dollar
EnhancedPnLs == {-90, 90}

\* analysis.direction.  It is stored in the trade and enters the sign of pnl
\* only, which EnhancedPnLs draws for itself: one direction is followed.
EnhancedDirections == {"LONG"}

\* Faulty variant of loadState: the daily count of the file is not taken
\* over.
Enh_loadState_ForgetsCount(file) ==
    IF file.exists THEN [dailyTrades |-> 0,
                         lastTradeDate |-> file.lastTradeDate]
    ELSE [dailyTrades |-> 0, lastTradeDate |-> -1]

Enh_loadState(file) ==
    IF file.exists THEN [dailyTrades |-> file.dailyTrades,
                         lastTradeDate |-> file.lastTradeDate]
    ELSE [dailyTrades |-> 0, lastTradeDate |-> -1]

Enh_saveState(bs) ==
    [exists |-> TRUE, dailyTrades |-> bs.dailyTrades,
     lastTradeDate |-> bs.lastTradeDate]

\* the state after the date check of checkSafetyLimits
checkSafetyLimits_state(bs, t) ==
    IF bs.lastTradeDate # Day(t)
    THEN [bs EXCEPT !.dailyTrades = 0, !.lastTradeDate = Day(t)]
    ELSE bs

\* the value checkSafetyLimits returns
checkSafetyLimits(bs, losses, t) ==
    /\ ~(checkSafetyLimits_state(bs, t).dailyTrades >= DAILY_LIMIT)
    /\ ~(losses >= MAX_CONSECUTIVE_LOSSES)

recordTrade(trades, direction, t, id) ==
    Append(trades, [id |-> id, timestamp |-> t, direction |-> direction,
                    status |-> "OPEN", pnl |-> 0, isWin |-> FALSE])

\* TradeTracker.closeTrade: the trade found by id is updated in place
Tracker_closeTrade(trades, tradeId, pnl) ==
    LET found == {i \in 1..Len(trades) : trades[i].id = tradeId}
        index == CHOOSE i \in found : \A j \in found : i <= j
    IN  IF found = {} THEN trades
        ELSE [trades EXCEPT ![index] =
                [@ EXCEPT !.pnl = pnl, !.isWin = pnl > 0, !.status = "CLOSED"]]

Enh_start ==
    /\ program = "EnhancedBot"
    /\ ~exited /\ ~isRunning
    /\ isRunning' = TRUE
    /\ UNCHANGED <<enhVars, staticVars, loopAt, now, idClock, exited, riskVars, tradingData,
                   relayVars>>

\* One iteration of the loop of start(): showStats() (which calls
\* checkSafetyLimits), analyzeMarket(), and executeTrade(analysis) when
\* analysis.shouldTrade and checkSafetyLimits().  The close of a trade (15 to
\* 60 s) fires before the next iteration (120 to 300 s later).
Enh_loop(shouldTrade, direction) ==
    /\ program = "EnhancedBot"
    /\ ~exited /\ isRunning /\ timers = {}
    /\ LET bs == checkSafetyLimits_state(botState, now)
       IN  IF shouldTrade /\ checkSafetyLimits(botState, consecutiveLosses, now)
              /\ idClock < MaxEnhancedTrades
           THEN /\ sessionTrades' = recordTrade(sessionTrades, direction, now,
                                                idClock + 1)
                /\ idClock' = idClock + 1
                /\ botState' = [bs EXCEPT !.dailyTrades = @ + 1]
                /\ botStateFile' = Enh_saveState(botState')
                /\ timers' = {idClock + 1}
           ELSE /\ botState' = bs
                /\ UNCHANGED <<sessionTrades, idClock, botStateFile, timers>>
    /\ UNCHANGED <<staticVars, loopAt, now, isRunning, exited, riskVars, tradingData,
                   shutdown, startTime, stateFile, sessions>>

\* the setTimeout of executeTrade fires: closeTrade(tradeId, ...)
Enh_closeTrade(tradeId, pnl) ==
    /\ program = "EnhancedBot"
    /\ ~exited /\ tradeId \in timers
    /\ timers' = timers \ {tradeId}
    /\ sessionTrades' = Tracker_closeTrade(sessionTrades, tradeId, pnl)
    /\ consecutiveLosses' = IF pnl > 0 THEN 0 ELSE consecutiveLosses + 1
    /\ UNCHANGED <<staticVars, loopAt, now, idClock, isRunning, exited, currentPositions,
                   dailyStats, lastLossTime, subPortfolioBalances, ledger,
                   tradingData, shutdown, startTime, stateFile, sessions,
                   botState, botStateFile>>

\* SIGINT / SIGTERM: bot.stop(); process.exit(0)
Enh_stop ==
    /\ program = "EnhancedBot"
    /\ ~exited /\ isRunning
    /\ isRunning' = FALSE
    /\ botStateFile' = Enh_saveState(botState)
    /\ exited' = TRUE
    /\ timers' = {}
    /\ shutdown' = "stopped"
    /\ UNCHANGED <<staticVars, loopAt, now, idClock, riskVars, tradingData, startTime,
                   stateFile, sessions, sessionTrades, botState>>

\* the bot is started again: new RealisticTradingBot()
Enh_restart ==
    /\ program = "EnhancedBot"
    /\ exited /\ sessions < MaxSessions
    /\ exited' = FALSE
    /\ isRunning' = FALSE
    /\ shutdown' = "no"
    /\ sessions' = sessions + 1
    /\ consecutiveLosses' = 0
    /\ botState' = Enh_loadState(botStateFile)
    /\ UNCHANGED <<staticVars, loopAt, now, idClock, currentPositions, dailyStats,
                   lastLossTime, subPortfolioBalances, ledger, tradingData,
                   timers, startTime, stateFile, sessionTrades, botStateFile>>

(***************************************************************************)
(* The simulations: runBotSimulation of the test suite ("test") and        *)
(* BacktestingEngine.simulateStrategy ("backtest").  Money in thousandths  *)
(* of a dollar.                                                            *)
(***************************************************************************)
initialCapital == 10000000
\* config.takerFee, in thousandths
takerFee == 1
MaxCandles == 4

\* position = null
noPosition == [direction |-> "NONE", entryPrice |-> 0, size |-> 0]

\* before a run; `trades` holds the pnl of the recorded trades
simStart ==
    [engine |-> "none", capital |-> initialCapital, position |-> noPosition,
     trades |-> <<>>, candles |-> 0, finalCapital |-> NoValue]

\* calculatePnL: (price difference) * quantity, quantity = size / entryPrice
calculatePnL(position, exitPrice) ==
    IF position.direction = "BUY"
    THEN ((exitPrice - position.entryPrice) * position.size) \div position.entryPrice
    ELSE ((position.entryPrice - exitPrice) * position.size) \div position.entryPrice

\* the stop-loss (1.5 %) and take-profit (0.5 %) tests of both simulations;
\* `otherExit` is an RSI_OVERBOUGHT or TIME_EXIT signal of getExitSignal
simExit(s, price, otherExit) ==
    LET p == s.position
        stopLoss == IF p.direction = "BUY"
                    THEN (p.entryPrice * 9850) \div 10000
                    ELSE (p.entryPrice * 10150) \div 10000
        takeProfit == IF p.direction = "BUY"
                      THEN (p.entryPrice * 10050) \div 10000
                      ELSE (p.entryPrice * 9950) \div 10000
    IN  \/ p.direction = "BUY" /\ (price <= stopLoss \/ price >= takeProfit)
        \/ p.direction = "SELL" /\ (price >= stopLoss \/ price <= takeProfit)
        \/ s.engine = "backtest" /\ otherExit

\* one iteration of the loop over the candles
simIteration(s, price, signal, otherExit) ==
    IF s.position = noPosition
    THEN IF signal # "NONE" /\ s.capital > 100000
         THEN LET positionSize == Min((s.capital * 5) \div 100,
                                      (s.capital * 95) \div 100)
              IN  [s EXCEPT
                     !.position = [direction |-> signal, entryPrice |-> price,
                                   size |-> positionSize],
                     !.capital = @ - positionSize,
                     !.candles = @ + 1]
         ELSE [s EXCEPT !.candles = @ + 1]
    ELSE IF simExit(s, price, otherExit)
         THEN LET pnl == calculatePnL(s.position, price)
                  fees == IF s.engine = "backtest"
                          THEN ((s.position.size
                                 + (IF pnl < 0 THEN -pnl ELSE pnl)) * takerFee)
                                    \div 1000
                          ELSE 0
                  netPnL == pnl - fees
              IN  [s EXCEPT
                     !.capital = @ + s.position.size + netPnL,
                     !.trades = Append(@, netPnL),
                     !.position = noPosition,
                     !.candles = @ + 1]
         ELSE [s EXCEPT !.candles = @ + 1]

(***************************************************************************)
(* ConfigurationManager (config_manager): state.currentConfig (its trading *)
(* section), state.configHistory (newest first), the environment file,    *)
(* the number of backup directories and the events emitted.               *)
(***************************************************************************)
\* the manager after new ConfigurationManager(): loadConfiguration has
\* merged the generated defaults, validated them and saved the history
managerStart ==
    [currentConfig |-> defaultConfig, configHistory |-> <<defaultConfig>>,
     envFile |-> <<>>, backups |-> 0, events |-> <<>>, calls |-> 0,
     threw |-> FALSE]

(***************************************************************************)
(* AlertSystem (alert_system): this.state, the sendAlert calls that await  *)
(* their delivery, the alerts whose delivery was started, in order, and    *)
(* whether a call has started while another awaited.                       *)
(* Its times are minutes; constructedAt is the clock at construction.      *)
(***************************************************************************)
\* the readings of Date.now(), in minutes: within the cooldown of the
\* first, at its end, and at the first hourly reset
AlertClock == <<100, 110, 115, 160>>

constructedAt == AlertClock[1]

alertStart ==
    [alertsSentThisHour |-> 0, lastAlertTime |-> 0, recentAlerts |-> {},
     time |-> constructedAt, resets |-> 0, pending |-> {}, sent |-> <<>>,
     sentAtReset |-> 0, overlapped |-> FALSE]

(***************************************************************************)
(* BinanceAPI (binance_integration): state.websockets (stream -> socket),  *)
(* the sockets created (number -> stream and readyState), the streams with *)
(* a reconnect timer armed, and whether disconnect() has been called.      *)
(***************************************************************************)
apiStart ==
    [websockets |-> <<>>, sockets |-> <<>>, reconnects |-> {},
     disconnected |-> FALSE]

\* RealisticTradingBot.validateConfig: it prints warnings and the
\* configuration, and returns normally whatever the configuration is.
validateConfig(cfg) == TRUE

\* new RealisticTradingBot(given) / new RelayTradingBot(given) / the
\* enhanced bot's constructor: the state after construction
constructor(given) ==
    /\ config = given
    /\ now = Clock[1]
    /\ idClock = 0
    /\ isRunning = FALSE
    /\ exited = ~validateConfig(given)
    /\ currentPositions = <<>>
    /\ dailyStats = initDailyStats(Clock[1])
    /\ consecutiveLosses = 0
    /\ lastLossTime = 0
    /\ subPortfolioBalances = initSubPortfolios
    /\ tradingData = [s \in Symbols |-> 0]
    /\ ledger = <<>>
    /\ timers = {}
    /\ shutdown = "no"
    /\ startTime = Clock[1]
    /\ loopAt = 0
    /\ analysis = [period |-> 0, rsi |-> NoValue, sma |-> NoValue]
    /\ sim = simStart
    /\ manager = managerStart
    /\ alertSystem = alertStart
    /\ api = apiStart
    /\ stateFile = [exists |-> FALSE]
    /\ sessions = 1
    /\ sessionTrades = <<>>
    /\ botState = Enh_loadState([exists |-> FALSE])
    /\ botStateFile = [exists |-> FALSE]

\* no candle has been received
Init ==
    /\ program \in {"RealisticTradingBot", "RelayTradingBot", "EnhancedBot"}
    /\ constructor(defaultConfig)
    /\ priceSeries = <<>>

Next ==
    \/ Start
    \/ \E symbol \in Symbols, close \in PriceLevels,
          direction \in {"NONE", "BUY", "SELL"}, volatility \in VolatilityLevels :
            /\ direction # "NONE" => close \in SignalPrices
            /\ processMarketData(symbol, close, direction, volatility)
    \/ PeriodicTick
    \/ Stop
    \/ Exit
    \/ AdvanceTime
    \/ startTrading
    \/ \E signals \in SUBSET Range(RelaySymbols), moves \in MoveSeqs :
            tradingLoop(signals, moves)
    \/ \E id \in timers, move \in PriceMoves : timerClose(id, move)
    \/ \E moves \in MoveSeqs : signalShutdown(moves)
    \/ shutdownSave
    \/ shutdownExit
    \/ newSession
    \/ Enh_start
    \/ \E shouldTrade \in BOOLEAN, direction \in EnhancedDirections :
            Enh_loop(shouldTrade, direction)
    \/ \E tradeId \in timers, pnl \in EnhancedPnLs : Enh_closeTrade(tradeId, pnl)
    \/ Enh_stop
    \/ Enh_restart

Spec == Init /\ [][Next]_vars

(***************************************************************************)
(* Properties                                                              *)
(***************************************************************************)
RECURSIVE SumBalance(_, _)
SumBalance(balances, n) ==
    IF n = 0 THEN 0 ELSE balances[n].balance + SumBalance(balances, n - 1)

RECURSIVE SumPositionSize(_)
SumPositionSize(positions) ==
    IF positions = <<>> THEN 0
    ELSE Head(positions).positionSize + SumPositionSize(Tail(positions))

RECURSIVE SumRealizedPnL(_)
SumRealizedPnL(records) ==
    IF records = <<>> THEN 0
    ELSE Head(records).realizedPnL + SumRealizedPnL(Tail(records))

\* the number of ledger records of position `id`
LedgerCount(records, id) ==
    Cardinality({i \in 1..Len(records) : records[i].id = id})

\* a step in which a position is opened: an id is drawn
Opens == idClock' > idClock

\* a step in which exactly one close is recorded, and its record
ClosesOne == Len(ledger') = Len(ledger) + 1
LastClosed == ledger'[Len(ledger')]

\* the daily counter of the running bot and the day it counts
DailyDate ==
    IF program = "EnhancedBot" THEN botState.lastTradeDate ELSE dailyStats.date
DailyCount ==
    IF program = "EnhancedBot" THEN botState.dailyTrades
    ELSE dailyStats.tradesCount

LossLimit ==
    IF program = "EnhancedBot" THEN MAX_CONSECUTIVE_LOSSES
    ELSE maxConsecutiveLosses

\* C1: capital conservation in RealisticTradingBot.  In every reachable
\* state the sum of the sub-portfolio balances plus the positionSize of the
\* open positions equals totalCapital plus the realizedPnL of the closed
\* positions.
C1_CapitalConservation ==
    program = "RealisticTradingBot" =>
        SumBalance(subPortfolioBalances, subPortfolios)
            + SumPositionSize(currentPositions)
        = totalCapital + SumRealizedPnL(ledger)

\* C2: no double accounting in RelayTradingBot.  Every position id has at
\* most one record in the trade ledger, and a position with a record in the
\* ledger is not in the open set, whatever the order of the timer closes, the
\* close loop of gracefulShutdown, the snapshot and its restore.
C2_NoDoubleAccounting ==
    program = "RelayTradingBot" =>
        /\ \A i, j \in 1..Len(ledger) : ledger[i].id = ledger[j].id => i = j
        /\ \A p \in Range(currentPositions) : LedgerCount(ledger, p.id) = 0

\* C3: daily trade limit.  dailyStats.tradesCount never exceeds
\* maxTradesPerDay, also when several symbols signal in one iteration of the
\* trading loop.
C3_DailyTradeLimit ==
    program \in {"RealisticTradingBot", "RelayTradingBot"} =>
        dailyStats.tradesCount <= maxTradesPerDay

\* C4: consecutive-loss gate.  No position is opened in a state where
\* consecutiveLosses has reached the limit: after three losing closes in a
\* row the next signal is rejected.
C4_ConsecutiveLossGate ==
    [][Opens => consecutiveLosses < LossLimit]_vars

\* C4 witness: three losses in a row are recorded and every other check of
\* the gate passes (a new day has begun, the cooldown is over, a sub-portfolio
\* is free, a candle at a signal price has been processed): the loss gate
\* alone keeps the position from being opened.
C4_Witness ==
    /\ program = "RealisticTradingBot"
    /\ isRunning
    /\ consecutiveLosses >= maxConsecutiveLosses
    /\ Len(ledger) >= 3
    /\ dailyStats.tradesCount < maxTradesPerDay
    /\ cooldownOver(State, now)
    /\ dailyStats.totalRisk < maxDailyRisk
    /\ getAvailablePortfolio(State) # 0
    /\ \E symbol \in Symbols : tradingData[symbol] \in SignalPrices
    /\ idClock < MaxTrades

\* C5: cooldown after a loss.  A position is opened at time t only if
\* lastLossTime is unset or t - lastLossTime > cooldownAfterLoss
\* (RealisticTradingBot and RelayTradingBot).
C5_CooldownAfterLoss ==
    [][(Opens /\ program \in {"RealisticTradingBot", "RelayTradingBot"}) =>
        (lastLossTime = 0 \/ now - lastLossTime > cooldownAfterLoss)]_vars

\* C5 witness: a position is open that was opened after a loss, once the
\* cooldown was over.
C5_Witness ==
    /\ program = "RealisticTradingBot"
    /\ lastLossTime # 0
    /\ \E p \in Range(currentPositions) :
            p.timestamp - lastLossTime > cooldownAfterLoss

\* C6: counter update on close.  A close with realizedPnL > 0 sets
\* consecutiveLosses to 0 and leaves lastLossTime unchanged; a close with
\* realizedPnL <= 0 (0 included) adds 1 to consecutiveLosses and sets
\* lastLossTime to the time of the close.
C6_CounterUpdateOnClose ==
    [][(ClosesOne /\ program \in {"RealisticTradingBot", "RelayTradingBot"}) =>
        IF LastClosed.realizedPnL > 0
        THEN consecutiveLosses' = 0 /\ lastLossTime' = lastLossTime
        ELSE consecutiveLosses' = consecutiveLosses + 1 /\ lastLossTime' = now]_vars

\* C6 witness: the last close was at exactly 0 (a trailing stop at the entry
\* price) and counted as a loss, after an earlier winning close.
C6_Witness ==
    /\ Len(ledger) >= 2
    /\ ledger[Len(ledger)].realizedPnL = 0
    /\ \E i \in 1..Len(ledger) : ledger[i].realizedPnL > 0
    /\ consecutiveLosses >= 1
    /\ lastLossTime = now

\* the steps that check the date: the periodic tick of RealisticTradingBot,
\* an iteration of the trading loop of RelayTradingBot (its gate check), an
\* iteration of the loop of the enhanced bot (checkSafetyLimits)
DateCheckStep ==
    \/ PeriodicTick
    \/ \E signals \in SUBSET Range(RelaySymbols), moves \in MoveSeqs :
            tradingLoop(signals, moves)
    \/ \E shouldTrade \in BOOLEAN, direction \in EnhancedDirections :
            Enh_loop(shouldTrade, direction)

\* C7: daily counter monotonicity and rollover.  While the day of the daily
\* counter stays the same the count does not decrease, and after every
\* periodic tick or gate check the counter is the one of the current calendar
\* day, also in a process that runs across midnight.
C7_DailyRollover ==
    [][/\ DailyDate' = DailyDate => DailyCount' >= DailyCount
       /\ DateCheckStep => DailyDate' = Day(now')]_vars

\* C8: date rollover frame.  The daily reset changes the daily statistics
\* only: consecutiveLosses, lastLossTime, the open positions and the
\* sub-portfolio balances are after the reset what they were before it (in
\* the periodic tick: what managePositions left).
C8_RolloverFrame ==
    [][/\ (PeriodicTick /\ dailyStats.date # Day(now)) =>
            LET managed == managePositions(State, tradingData, now)
            IN  /\ dailyStats' = initDailyStats(now)
                /\ consecutiveLosses' = managed.consecutiveLosses
                /\ lastLossTime' = managed.lastLossTime
                /\ currentPositions' = managed.currentPositions
                /\ subPortfolioBalances' = managed.subPortfolioBalances
       /\ (startTrading /\ dailyStats.date # Day(now)) =>
            /\ dailyStats' = initDailyStats(now)
            /\ UNCHANGED <<consecutiveLosses, lastLossTime, currentPositions,
                           subPortfolioBalances>>
       /\ ((\E shouldTrade \in BOOLEAN, direction \in EnhancedDirections :
                Enh_loop(shouldTrade, direction))
           /\ botState.lastTradeDate # Day(now)) =>
            /\ botState'.lastTradeDate = Day(now)
            /\ consecutiveLosses' = consecutiveLosses
            /\ \A i \in 1..Len(sessionTrades) :
                    sessionTrades'[i] = sessionTrades[i]]_vars

\* C8 witness: the reset of the new day has happened in RealisticTradingBot
\* (no trade counted since), with a loss on the counters and a position open
\* that was opened the day before.
C8_Witness ==
    /\ program = "RealisticTradingBot"
    /\ dailyStats.date = Day(now) /\ dailyStats.date # Day(Clock[1])
    /\ dailyStats.tradesCount = 0
    /\ consecutiveLosses > 0 /\ lastLossTime # 0
    /\ Day(lastLossTime) # Day(now)
    /\ \E p \in Range(currentPositions) : Day(p.timestamp) # Day(now)

\* the open positions of sub-portfolio i
OpenIn(i) == {k \in 1..Len(currentPositions) : currentPositions[k].portfolioId = i}

\* C9: one position per sub-portfolio (RealisticTradingBot).  activePositions
\* of each sub-portfolio is 0 or 1 and is the number of open positions whose
\* portfolioId is that sub-portfolio; the portfolioId of a position is a
\* sub-portfolio and does not change while the position is open.
C9_OnePositionPerPortfolio ==
    /\ [](program = "RealisticTradingBot" =>
            /\ \A i \in Portfolios :
                /\ subPortfolioBalances[i].activePositions \in {0, 1}
                /\ subPortfolioBalances[i].activePositions = Cardinality(OpenIn(i))
            /\ \A p \in Range(currentPositions) : p.portfolioId \in Portfolios)
    /\ [][program = "RealisticTradingBot" =>
            \A p \in Range(currentPositions), q \in Range(currentPositions') :
                p.id = q.id => p.portfolioId = q.portfolioId]_vars

\* C9 witness: two positions are open, each on a sub-portfolio of its own,
\* after an earlier position was closed and its sub-portfolio freed.
C9_Witness ==
    /\ program = "RealisticTradingBot"
    /\ Len(currentPositions) = 2
    /\ currentPositions[1].portfolioId # currentPositions[2].portfolioId
    /\ Len(ledger) >= 1

\* the trades of the enhanced bot that are open
OpenTrades(trades) == {i \in 1..Len(trades) : trades[i].status = "OPEN"}

\* C10: graceful drain at shutdown.  When stop() returns
\* (RealisticTradingBot, the enhanced bot) and when gracefulShutdown writes
\* the final snapshot (RelayTradingBot), no position is open, and every
\* position that was open when the shutdown started has exactly one record
\* in the ledger.
C10_GracefulDrain ==
    [][/\ (program = "RealisticTradingBot" /\ shutdown = "no"
             /\ shutdown' = "stopped") =>
            /\ currentPositions' = <<>>
            /\ \A p \in Range(currentPositions) : LedgerCount(ledger', p.id) = 1
       /\ (program = "RelayTradingBot" /\ shutdown = "waiting"
             /\ shutdown' = "committing") =>
            /\ currentPositions' = <<>>
            /\ stateFile'.currentPositions = <<>>
       /\ (program = "EnhancedBot" /\ shutdown = "no"
             /\ shutdown' = "stopped") =>
            OpenTrades(sessionTrades') = {}]_vars

\* the open positions of `positions` whose stop-loss or take-profit condition
\* holds at the last price of their symbol
Due(positions, data) ==
    {k \in 1..Len(positions) :
        /\ data[positions[k].symbol] # 0
        /\ \/ shouldStopLoss(positions[k], data[positions[k].symbol])
           \/ shouldTakeProfit(positions[k], data[positions[k].symbol])}

\* C11: every position is re-evaluated on every tick.  After a tick of
\* managePositions no position is left open whose stop-loss or take-profit
\* condition holds at the current price of its symbol, also when other
\* positions were closed earlier in the same tick.
C11_EveryPositionReevaluated ==
    [][PeriodicTick => Due(currentPositions', tradingData) = {}]_vars

\* the reason of the first close condition of managePositions that holds for
\* position p at currentPrice and time t ("NONE": none holds)
FirstReason(p, currentPrice, t) ==
    IF shouldStopLoss(p, currentPrice) THEN "STOP_LOSS"
    ELSE IF shouldTakeProfit(p, currentPrice) THEN "TAKE_PROFIT"
    ELSE IF shouldTrailingStop(p, currentPrice, t) THEN "TRAILING_STOP"
    ELSE "NONE"

\* C12: priority of the close conditions.  Every position that a tick of
\* managePositions closes is closed with the reason of the first condition
\* that holds for it, in the order stop-loss, take-profit, stagnation exit:
\* when the stop-loss condition holds together with another one the reason
\* is STOP_LOSS.
C12_CloseReasonPriority ==
    [][PeriodicTick =>
        \A k \in (Len(ledger) + 1)..Len(ledger') :
            \E p \in Range(currentPositions) :
                /\ p.id = ledger'[k].id
                /\ ledger'[k].reason = FirstReason(p, tradingData[p.symbol], now)]_vars

\* C12 witness: the last close was a STOP_LOSS at a loss, so that it is the
\* close of lastLossTime, and a position opened after the closed one is still
\* open and was then older than the trailingStopHours: the closed position
\* met the stop-loss and the stagnation conditions together.
C12_Witness ==
    /\ program = "RealisticTradingBot"
    /\ Len(ledger) > 0
    /\ ledger[Len(ledger)].reason = "STOP_LOSS"
    /\ ledger[Len(ledger)].realizedPnL < 0
    /\ \E q \in Range(currentPositions) :
            /\ q.id[1] > ledger[Len(ledger)].id[1]
            /\ lastLossTime - q.timestamp > trailingStopHours

(***************************************************************************)
(* RealisticTradingBot over several days.  The bot is alone, the clock     *)
(* is read a day apart, and the candles close at the entry price or a      *)
(* little above it, between the entry and the take-profit.                 *)
(***************************************************************************)
LongClock == <<23, 49, 75>>
LongPrices == {45000, 45100}

\* time passes while the bot runs; nothing else changes
LongWait ==
    /\ program = "RealisticTradingBot"
    /\ \E i \in 1..(Len(LongClock) - 1) :
            now = LongClock[i] /\ now' = LongClock[i + 1]
    /\ UNCHANGED <<staticVars, loopAt, idClock, isRunning, exited, riskVars, tradingData,
                   relayVars, enhVars>>

LongRunInit ==
    Init /\ program = "RealisticTradingBot"

LongRunNext ==
    \/ Start
    \/ \E symbol \in Symbols, close \in LongPrices, direction \in {"NONE", "BUY"},
          volatility \in VolatilityLevels :
            /\ direction # "NONE" => close \in SignalPrices
            /\ processMarketData(symbol, close, direction, volatility)
    \/ PeriodicTick
    \/ LongWait

LongRunSpec == LongRunInit /\ [][LongRunNext]_vars

\* the longest time a position is to stay open, in hours
maxDuration == 24

\* C13: maximum holding time.  A tick of managePositions closes every
\* position that has been open for more than maxDuration, whatever its price
\* and unrealized PnL, and records the close with reason TIME_EXIT.
C13_MaxHoldingTime ==
    [][PeriodicTick =>
        \A p \in Range(currentPositions) :
            now - p.timestamp > maxDuration =>
                /\ \A q \in Range(currentPositions') : q.id # p.id
                /\ \E k \in (Len(ledger) + 1)..Len(ledger') :
                        ledger'[k].id = p.id /\ ledger'[k].reason = "TIME_EXIT"]_vars

(***************************************************************************)
(* TradeTracker on its own: the class is exported (module.exports) and its *)
(* methods are called in any order by whoever holds the tracker.           *)
(***************************************************************************)
\* tracker.recordTrade(symbol, entryPrice, direction)
Tracker_record(direction) ==
    /\ program = "EnhancedBot"
    /\ idClock < MaxEnhancedTrades
    /\ sessionTrades' = recordTrade(sessionTrades, direction, now, idClock + 1)
    /\ idClock' = idClock + 1
    /\ UNCHANGED <<staticVars, loopAt, now, isRunning, exited, riskVars, tradingData,
                   relayVars, botState, botStateFile>>

\* tracker.closeTrade(tradeId, exitPrice, pnl), for the id of any trade that
\* recordTrade has returned
Tracker_close(tradeId, pnl) ==
    /\ program = "EnhancedBot"
    /\ tradeId \in 1..idClock
    /\ sessionTrades' = Tracker_closeTrade(sessionTrades, tradeId, pnl)
    /\ UNCHANGED <<staticVars, loopAt, now, idClock, isRunning, exited, riskVars,
                   tradingData, relayVars, botState, botStateFile>>

\* time passes between two calls
Tracker_wait ==
    /\ program = "EnhancedBot"
    /\ \E i \in 1..(Len(Clock) - 1) : now = Clock[i] /\ now' = Clock[i + 1]
    /\ UNCHANGED <<staticVars, loopAt, idClock, isRunning, exited, riskVars, tradingData,
                   relayVars, enhVars>>

TrackerInit ==
    Init /\ program = "EnhancedBot"

TrackerNext ==
    \/ \E direction \in EnhancedDirections : Tracker_record(direction)
    \/ \E tradeId \in 1..MaxEnhancedTrades, pnl \in EnhancedPnLs :
            Tracker_close(tradeId, pnl)
    \/ Tracker_wait

TrackerSpec == TrackerInit /\ [][TrackerNext]_vars

\* C14: CLOSED is terminal.  A trade of the tracker that is CLOSED stays in
\* the list as it is: its status never becomes OPEN again and none of its
\* fields is changed by a later recordTrade or closeTrade.
C14_ClosedIsTerminal ==
    [][\A i \in 1..Len(sessionTrades) :
            sessionTrades[i].status = "CLOSED" =>
                /\ i <= Len(sessionTrades')
                /\ sessionTrades'[i] = sessionTrades[i]]_vars

\* the stop-loss and take-profit prices of position p are those of its entry
\* price and direction (percentages in basis points), on the right sides of
\* the entry price
Bracketed(p) ==
    IF p.direction = "BUY"
    THEN /\ p.stopLossPrice * 10000 = p.entryPrice * (10000 - stopLossPercent)
         /\ p.takeProfitPrice * 10000 = p.entryPrice * (10000 + dailyTargetMax)
         /\ p.stopLossPrice < p.entryPrice /\ p.entryPrice < p.takeProfitPrice
    ELSE /\ p.stopLossPrice * 10000 = p.entryPrice * (10000 + stopLossPercent)
         /\ p.takeProfitPrice * 10000 = p.entryPrice * (10000 - dailyTargetMax)
         /\ p.takeProfitPrice < p.entryPrice /\ p.entryPrice < p.stopLossPrice

\* C15: stop-loss / take-profit bracket (RealisticTradingBot).  Every open
\* position has stopLossPrice = entryPrice * (1 - stopLossPercent) and
\* takeProfitPrice = entryPrice * (1 + target) when it is a BUY, mirrored
\* when it is a SELL, so that the two prices bracket the entry price in the
\* sense of the direction; and entryPrice, positionSize (hence quantity =
\* positionSize / entryPrice), stopLossPrice and takeProfitPrice of a
\* position do not change while it is open.
C15_Bracket ==
    /\ [](program = "RealisticTradingBot" =>
            \A p \in Range(currentPositions) : Bracketed(p))
    /\ [][program = "RealisticTradingBot" =>
            \A p \in Range(currentPositions), q \in Range(currentPositions') :
                p.id = q.id =>
                    /\ q.entryPrice = p.entryPrice
                    /\ q.positionSize = p.positionSize
                    /\ q.stopLossPrice = p.stopLossPrice
                    /\ q.takeProfitPrice = p.takeProfitPrice
                    /\ q.direction = p.direction]_vars

\* C15 witness: a BUY and a SELL position are open, both opened before the
\* last reading of the clock, and another position has been closed since.
C15_Witness ==
    /\ program = "RealisticTradingBot"
    /\ \E p, q \in Range(currentPositions) :
            /\ p.direction = "BUY" /\ q.direction = "SELL"
            /\ p.timestamp < now /\ q.timestamp < now
    /\ Len(ledger) > 0

(***************************************************************************)
(* The position methods of RealisticTradingBot called one by one on a      *)
(* constructed bot: executeTrade with a signal of either direction and a   *)
(* volatility of the whole range of calculateVolatility, closePosition     *)
(* with the price at the stop-loss or at the take-profit of the position.  *)
(***************************************************************************)
MaxUnitCalls == 5
MaxUnitCloses == 2
\* the signals: direction and volatility (basis points) of the analysis
UnitSignals == {<<"BUY", 200>>, <<"SELL", 30000>>}

\* executeTrade(signal): idClock counts the calls, skipped ones included
UnitOpen(direction, symbol, price, volatility) ==
    /\ program = "RealisticTradingBot"
    /\ idClock < MaxUnitCalls
    /\ SetState(executeTrade(State, direction, symbol, price, volatility, now,
                             idClock + 1))
    /\ idClock' = idClock + 1
    /\ UNCHANGED <<staticVars, loopAt, now, isRunning, exited, tradingData, relayVars, enhVars>>

\* closePosition(position, currentPrice, reason) with currentPrice at the
\* threshold that `reason` names
UnitClose(index, reason) ==
    /\ program = "RealisticTradingBot"
    /\ index \in 1..Len(currentPositions)
    /\ Len(ledger) < MaxUnitCloses
    /\ LET position == currentPositions[index]
           currentPrice == IF reason = "STOP_LOSS" THEN position.stopLossPrice
                           ELSE position.takeProfitPrice
       IN  SetState(closePosition(State, index, currentPrice, reason, now))
    /\ UNCHANGED <<staticVars, loopAt, now, idClock, isRunning, exited, tradingData,
                   relayVars, enhVars>>

UnitInit ==
    Init /\ program = "RealisticTradingBot"

UnitNext ==
    \/ \E signal \in UnitSignals, symbol \in Symbols, price \in SignalPrices :
            UnitOpen(signal[1], symbol, price, signal[2])
    \/ \E index \in Portfolios, reason \in {"STOP_LOSS", "TAKE_PROFIT"} :
            UnitClose(index, reason)

UnitSpec == UnitInit /\ [][UnitNext]_vars

\* C16: sign of the realized PnL at the thresholds.  A position closed at a
\* price equal to its stopLossPrice is recorded with realizedPnL < 0, and one
\* closed at a price equal to its takeProfitPrice with realizedPnL > 0, for
\* a BUY and for a SELL with its own two prices.
C16_PnLSignAtThresholds ==
    [][\A k \in (Len(ledger) + 1)..Len(ledger') :
        \A p \in Range(currentPositions) :
            (program = "RealisticTradingBot" /\ p.id = ledger'[k].id) =>
                /\ ledger'[k].exitPrice = p.stopLossPrice =>
                        ledger'[k].realizedPnL < 0
                /\ ledger'[k].exitPrice = p.takeProfitPrice =>
                        ledger'[k].realizedPnL > 0]_vars

\* C16 witness: a BUY has been closed at its stop-loss price and a SELL at
\* its take-profit price, both below the entry price.
C16_Witness ==
    /\ program = "RealisticTradingBot"
    /\ \E e \in SignalPrices, i, j \in 1..Len(ledger) :
            /\ ledger[i].reason = "STOP_LOSS"
            /\ ledger[i].exitPrice * 10000 = e * (10000 - stopLossPercent)
            /\ ledger[j].reason = "TAKE_PROFIT"
            /\ ledger[j].exitPrice * 10000 = e * (10000 - dailyTargetMax)

\* the sub-portfolios without an active position
Idle == {i \in Portfolios : subPortfolioBalances[i].activePositions = 0}

\* C17: sub-portfolio selection.  getAvailablePortfolio returns null exactly
\* when no sub-portfolio has activePositions = 0; otherwise it returns a
\* sub-portfolio with activePositions = 0 whose balance is the smallest of
\* those, the one of lowest number among equal balances.
C17_PortfolioSelection ==
    program = "RealisticTradingBot" =>
        LET selected == getAvailablePortfolio(State)
        IN  /\ selected = 0 <=> Idle = {}
            /\ selected # 0 =>
                /\ selected \in Idle
                /\ \A j \in Idle :
                    \/ subPortfolioBalances[selected].balance
                            < subPortfolioBalances[j].balance
                    \/ /\ subPortfolioBalances[selected].balance
                            = subPortfolioBalances[j].balance
                       /\ selected <= j

\* C17 witness: the sub-portfolio selected is not the idle one of lowest
\* number, because that one has a greater balance, and two idle
\* sub-portfolios have the smallest balance, while another is busy.
C17_Witness ==
    /\ program = "RealisticTradingBot"
    /\ Idle # Portfolios
    /\ \E i, j, k \in Idle :
            /\ getAvailablePortfolio(State) = j
            /\ i < j /\ j < k
            /\ subPortfolioBalances[i].balance > subPortfolioBalances[j].balance
            /\ subPortfolioBalances[k].balance = subPortfolioBalances[j].balance

\* the volatilities (basis points) the sizing is evaluated at: none, below
\* and above the BUY window of shouldTrade, and above 100 %
SizingVolatilities == {0, 50, 200, 800, 7500, 10000, 30000}

\* clamp(1 / volatility, 0.5, 1.5), in percent
Clamp(volatility) ==
    IF volatility = 0 \/ volatility * 150 <= 1000000 THEN 150
    ELSE IF volatility * 50 >= 1000000 THEN 50
    ELSE 1000000 \div volatility

\* `size` is min(balance * maxPositionPercent * clamp * (stopLossPercent /
\* 0.02), 0.10 * balance) up to the rounding to thousandths of a dollar, is
\* positive and is at most a tenth of the balance.  The product of the two
\* percentages and the denominator 10000 * 100 * 200 are both divided by
\* 25000, which keeps the numbers within 32 bits.
SizeOk(balance, volatility, size) ==
    LET factor == (maxPositionPercent * stopLossPercent) \div 25000
        exact == (balance * Clamp(volatility) * factor) \div 8000
    IN  /\ size > 0
        /\ size * 10 <= balance
        /\ \/ size <= exact /\ exact < size + 3
           \/ size = balance \div 10 /\ exact >= size

ScenarioTick ==
    /\ PeriodicTick
    /\ Len(currentPositions) = 1
    /\ currentPositions[1].direction = "BUY"
    /\ currentPositions[1].entryPrice = 45000
    /\ currentPositions[1].portfolioId = 1
    /\ subPortfolioBalances[1].balance = 2500000
    /\ tradingData[currentPositions[1].symbol] = 45225

\* the position of the scenario has the given prices and size, and the tick
\* closes it with reason TAKE_PROFIT, the given realized PnL and the given
\* balance of sub-portfolio 1 (thousandths of a dollar)
ScenarioOutcome(positionSize, realizedPnL, balance) ==
    /\ currentPositions[1].stopLossPrice = 44325
    /\ currentPositions[1].takeProfitPrice = 45225
    /\ currentPositions[1].positionSize = positionSize
    /\ currentPositions' = <<>>
    /\ Len(ledger') = Len(ledger) + 1
    /\ ledger'[Len(ledger')].id = currentPositions[1].id
    /\ ledger'[Len(ledger')].reason = "TAKE_PROFIT"
    /\ ledger'[Len(ledger')].realizedPnL = realizedPnL
    /\ subPortfolioBalances'[1].balance = balance

C20_CapacityExhaustion ==
    [][(program = "RealisticTradingBot" /\ idClock' = idClock + 1 /\ Idle = {}) =>
            /\ currentPositions' = currentPositions
            /\ subPortfolioBalances' = subPortfolioBalances
            /\ dailyStats'.tradesCount = dailyStats.tradesCount
            /\ dailyStats'.totalRisk = dailyStats.totalRisk
            /\ ledger' = ledger
            /\ tradingData' = tradingData]_vars

\* C20 witness: every sub-portfolio is busy and executeTrade has been called
\* more often than positions were opened: a call was skipped.
C20_Witness ==
    /\ program = "RealisticTradingBot"
    /\ Idle = {}
    /\ Len(currentPositions) = subPortfolios
    /\ idClock > Len(currentPositions) + Len(ledger)

\* the snapshot `file` holds the positions, daily statistics, loss counters
\* and balances given
SameAsSnapshot(file, positions, stats, losses, lossTime, balances) ==
    /\ file.currentPositions = positions
    /\ file.dailyStats = stats
    /\ file.consecutiveLosses = losses
    /\ file.lastLossTime = lossTime
    /\ file.subPortfolioBalances = balances

\* C21: snapshot / restore round trip (RelayTradingBot).  saveState writes
\* the open positions, dailyStats, consecutiveLosses, lastLossTime and the
\* sub-portfolio balances as they are, and loadPreviousState of a snapshot
\* less than 24 h old gives the new session exactly the values of the
\* snapshot.
C21_SnapshotRoundTrip ==
    [][program = "RelayTradingBot" =>
        /\ stateFile' # stateFile =>
                SameAsSnapshot(stateFile', currentPositions, dailyStats,
                               consecutiveLosses, lastLossTime,
                               subPortfolioBalances)
        /\ (sessions' = sessions + 1 /\ stateFile.exists
                /\ now - stateFile.lastHandoff < maxStateAge) =>
                SameAsSnapshot(stateFile, currentPositions', dailyStats',
                               consecutiveLosses', lastLossTime',
                               subPortfolioBalances')]_vars

\* C21 witness: a second session has been constructed from a snapshot less
\* than 24 h old and has not started yet; it holds the open position, the
\* loss counters and the trades counted of the snapshot.
C21_Witness ==
    /\ program = "RelayTradingBot"
    /\ sessions > 1 /\ ~exited /\ ~isRunning /\ shutdown = "no"
    /\ stateFile.exists /\ now - stateFile.lastHandoff < maxStateAge
    /\ currentPositions # <<>> /\ currentPositions = stateFile.currentPositions
    /\ consecutiveLosses > 0 /\ consecutiveLosses = stateFile.consecutiveLosses
    /\ lastLossTime # 0 /\ lastLossTime = stateFile.lastLossTime
    /\ dailyStats.tradesCount > 0 /\ dailyStats = stateFile.dailyStats

(***************************************************************************)
(* RealisticTradingBot with a trades file that cannot always be written:   *)
(* fs.appendFileSync of saveTrade throws (disk full, file not writable).   *)
(***************************************************************************)
\* closePosition when saveTrade throws: the balance, the counters and the
\* splice are done, the record is not appended
closePositionUnsaved(st, index, exitPrice, reason, t) ==
    [closePosition(st, index, exitPrice, reason, t) EXCEPT !.ledger = st.ledger]

\* A tick of managePositions in which the saveTrade of the first close
\* throws: the exception leaves closePosition, the forEach and the interval
\* callback, which no handler catches, and the process ends.
TickSaveFails ==
    /\ program = "RealisticTradingBot"
    /\ ~exited /\ isRunning
    /\ \E k \in 1..Len(currentPositions) :
        LET Reason(j) ==
                IF tradingData[currentPositions[j].symbol] = 0 THEN "NONE"
                ELSE FirstReason(currentPositions[j],
                                 tradingData[currentPositions[j].symbol], now)
        IN  /\ Reason(k) # "NONE"
            /\ \A j \in 1..(k - 1) : Reason(j) = "NONE"
            /\ SetState(closePositionUnsaved(
                    State, k, tradingData[currentPositions[k].symbol],
                    Reason(k), now))
    /\ exited' = TRUE
    /\ UNCHANGED <<staticVars, loopAt, now, idClock, isRunning, tradingData, relayVars,
                   enhVars>>

FaultInit ==
    Init /\ program = "RealisticTradingBot"

FaultNext ==
    \/ Start
    \/ \E symbol \in Symbols, close \in PriceLevels,
          direction \in {"NONE", "BUY", "SELL"}, volatility \in VolatilityLevels :
            /\ direction # "NONE" => close \in SignalPrices
            /\ processMarketData(symbol, close, direction, volatility)
    \/ PeriodicTick
    \/ TickSaveFails
    \/ AdvanceTime

\* the interval timer of start() keeps firing while the process lives
FaultSpec == FaultInit /\ [][FaultNext]_vars /\ WF_vars(PeriodicTick)

\* position number id has been opened and is no longer open
Left(id) ==
    /\ id <= idClock
    /\ \A p \in Range(currentPositions) : p.id[1] # id

\* the ledger has a record of position number id
Recorded(id) == \E k \in 1..Len(ledger) : ledger[k].id[1] = id

\* C22: a closed-trade record is never dropped.  Every position that has
\* left the open set has its closed record in the ledger in the end, also
\* when the append failed while the position was being closed.
C22_NoRecordDropped ==
    \A id \in 1..MaxTrades : Left(id) ~> Recorded(id)

\* C23: ledger and daily aggregate stay consistent (RealisticTradingBot and
\* RelayTradingBot).  On the day the bot was first started, when every
\* record of the ledger is a record of the day of dailyStats, wins + losses
\* is the number of ledger records, profitLoss is the sum of their
\* realizedPnL and winRate is wins / (wins + losses), also after a process
\* has ended and the next one has restored its snapshot.
C23_LedgerMatchesDailyStats ==
    (program # "EnhancedBot" /\ Day(now) = Day(Clock[1])
        /\ dailyStats.date = Day(now)) =>
        /\ dailyStats.wins + dailyStats.losses = Len(ledger)
        /\ dailyStats.profitLoss = SumRealizedPnL(ledger)
        /\ dailyStats.winRate =
                IF Len(ledger) = 0 THEN 0
                ELSE (dailyStats.wins * 100) \div Len(ledger)

(***************************************************************************)
(* RealisticTradingBot on a market that gaps: the candle after the entry   *)
(* closes at twenty times the entry price.                                 *)
(***************************************************************************)
GapEntryPrices == {200}
GapPrices == {200, 4000}

GapInit ==
    Init /\ program = "RealisticTradingBot"

GapNext ==
    \/ Start
    \/ \E symbol \in Symbols, close \in GapPrices,
          direction \in {"NONE", "BUY", "SELL"}, volatility \in VolatilityLevels :
            /\ direction # "NONE" => close \in GapEntryPrices
            /\ processMarketData(symbol, close, direction, volatility)
    \/ PeriodicTick
    \/ AdvanceTime

GapSpec == GapInit /\ [][GapNext]_vars

\* C24: no negative balance.  The balance of every sub-portfolio is >= 0 in
\* every state, for BUY and SELL positions and whatever the price at which
\* a tick closes them.
C24_NoNegativeBalance ==
    program = "RealisticTradingBot" =>
        \A i \in Portfolios : subPortfolioBalances[i].balance >= 0

(***************************************************************************)
(* Configuration errors.  ConfigurationManager holds the validation rules; *)
(* RealisticTradingBot is constructed from a configuration object.         *)
(***************************************************************************)
\* ConfigurationManager.validateAgainstSchema on trading.subPortfolios:
\* { type: 'integer', minimum: 1, maximum: 10 }
subPortfoliosSchema(cfg) ==
    (IF cfg.subPortfolios < 1 THEN {"subPortfolios: minimum"} ELSE {})
        \cup (IF cfg.subPortfolios > 10 THEN {"subPortfolios: maximum"} ELSE {})

\* ConfigurationManager.validateBusinessRules: the errors of config.trading
validateBusinessRules(cfg) ==
    (IF cfg.dailyTargetMax <= cfg.dailyTargetMin THEN {"dailyTargetMax"} ELSE {})
        \cup (IF cfg.stopLossPercent <= cfg.dailyTargetMax
              THEN {"stopLossPercent"} ELSE {})
        \cup (IF maxPositionPercent * maxTradesPerDay > 5000
              THEN {"exposure"} ELSE {})

\* ConfigurationManager.validateConfiguration throws iff there is an error
ConfigurationError(cfg) ==
    subPortfoliosSchema(cfg) \cup validateBusinessRules(cfg) # {}

\* The configurations a bot is constructed with: the defaults, a target
\* maximum (0.2 %) below the minimum (0.3 %), a stop-loss (0.4 %) below the
\* target maximum (0.5 %), and eleven sub-portfolios.
Configs ==
    {defaultConfig,
     [defaultConfig EXCEPT !.dailyTargetMax = 20],
     [defaultConfig EXCEPT !.stopLossPercent = 40],
     [defaultConfig EXCEPT !.subPortfolios = 11]}

ConfigPrices == {45000, 45225}

ConfigInit ==
    \E given \in Configs :
        /\ constructor(given)
        /\ priceSeries = <<>>
        /\ program = "RealisticTradingBot"

ConfigNext ==
    \/ Start
    \/ \E symbol \in Symbols, close \in ConfigPrices,
          direction \in {"NONE", "BUY", "SELL"}, volatility \in VolatilityLevels :
            /\ direction # "NONE" => close \in SignalPrices
            /\ processMarketData(symbol, close, direction, volatility)
    \/ PeriodicTick
    \/ AdvanceTime

ConfigSpec == ConfigInit /\ [][ConfigNext]_vars

\* C25: configuration errors are fatal at startup.  A bot whose
\* configuration has an invalid sub-portfolio count, dailyTargetMax <=
\* dailyTargetMin or stopLossPercent <= dailyTargetMax never opens a trade
\* (its construction was rejected).
C25_ConfigErrorsAreFatal ==
    (program = "RealisticTradingBot" /\ ConfigurationError(config)) =>
        (idClock = 0 /\ currentPositions = <<>>)

(***************************************************************************)
(* The trading loop of RelayTradingBot at the grain of its awaits.         *)
(* loopAt = 0: the loop awaits the 30 s timer (l. 567); loopAt = k > 0: it *)
(* awaits the promise of executeSimulatedTrade for the k-th symbol (l. 554)*)
(***************************************************************************)
\* Faulty variant of awaited: the promise awaited after an open is settled
\* by a timer, as the sleep is.
awaited_AlwaysTimer(at) == "timer"

\* What the loop awaits: executeSimulatedTrade is an async function without
\* an await of its own, its promise is resolved when the call returns; the
\* sleep is a promise that a setTimeout callback resolves.
awaited(at) ==
    IF at > 0 THEN "resolved" ELSE "timer"

\* Timer callbacks and signal handlers run when no continuation of a
\* resolved promise is queued.
eventLoopTurn == awaited(loopAt) = "timer"

\* the first symbol from index k on for which shouldTrade gives a signal
\* (0: none)
firstSignal(k, signals) ==
    IF \E i \in k..Len(RelaySymbols) : RelaySymbols[i] \in signals
    THEN CHOOSE i \in k..Len(RelaySymbols) :
            /\ RelaySymbols[i] \in signals
            /\ \A j \in k..(i - 1) : RelaySymbols[j] \notin signals
    ELSE 0

\* The for loop over config.symbols from index k on, run until it awaits:
\* the call of executeSimulatedTrade for the first symbol with a signal, or,
\* without one, displayStats() and the sleep.
loopRun(k, signals) ==
    LET j == firstSignal(k, signals)
    IN  /\ loopAt' = j
        /\ IF j = 0
           THEN /\ SetState(State)
                /\ UNCHANGED <<idClock, timers>>
           ELSE /\ idClock < MaxRelayTrades
                /\ SetState(executeSimulatedTrade(State, RelaySymbols[j], now,
                                                  idClock + 1))
                /\ idClock' = idClock + 1
                /\ timers' = timers \cup {<<idClock + 1, RelaySymbols[j]>>}
        /\ UNCHANGED <<enhVars, staticVars, now, isRunning, exited, tradingData,
                       shutdown, startTime, stateFile, sessions>>

\* the sleep ends: the runtime check, the gate, and the loop body up to its
\* first await
tickStart(signals, moves) ==
    /\ program = "RelayTradingBot"
    /\ ~exited /\ isRunning /\ shutdown = "no"
    /\ loopAt = 0 /\ timers = {}
    /\ IF getRuntimeInfo(startTime, now)
       THEN gracefulShutdown(moves)
       ELSE IF Relay_canTrade(State, now)
            THEN loopRun(1, signals)
            ELSE UNCHANGED vars

\* the continuation of `await this.executeSimulatedTrade(signal, symbol)`
tickResume(signals) ==
    /\ program = "RelayTradingBot"
    /\ ~exited /\ loopAt > 0
    /\ loopRun(loopAt + 1, signals)

TickInit == Init /\ program = "RelayTradingBot"

TickNext ==
    \/ startTrading
    \/ \E signals \in SUBSET Range(RelaySymbols), moves \in MoveSeqs :
            tickStart(signals, moves)
    \/ \E signals \in SUBSET Range(RelaySymbols) : tickResume(signals)
    \/ \E id \in timers, move \in PriceMoves :
            eventLoopTurn /\ timerClose(id, move)
    \/ \E moves \in MoveSeqs : eventLoopTurn /\ signalShutdown(moves)
    \/ eventLoopTurn /\ shutdownSave
    \/ eventLoopTurn /\ shutdownExit
    \/ eventLoopTurn /\ AdvanceTime

TickSpec == TickInit /\ [][TickNext]_vars

\* C26: ticks are serialized.  From a tick's gate check to the end of its
\* opens (the loop awaits the promise of an open), every step is an open of
\* that tick: no position is closed, no ledger record written, the loss
\* counters, the balances and isRunning are unchanged, and the daily
\* statistics change by the trade count of the open only.
C26_TicksSerialized ==
    [][(program = "RelayTradingBot" /\ loopAt > 0) =>
            /\ isRunning' = isRunning
            /\ shutdown' = shutdown
            /\ ledger' = ledger
            /\ consecutiveLosses' = consecutiveLosses
            /\ lastLossTime' = lastLossTime
            /\ subPortfolioBalances' = subPortfolioBalances
            /\ \/ /\ currentPositions' = currentPositions
                  /\ dailyStats' = dailyStats
               \/ /\ Len(currentPositions') = Len(currentPositions) + 1
                  /\ SubSeq(currentPositions', 1, Len(currentPositions))
                        = currentPositions
                  /\ dailyStats' = [dailyStats EXCEPT !.tradesCount = @ + 1]
                  /\ loopAt' > loopAt]_vars

\* the loop awaits the open of the second symbol while the close timers of
\* both opens of this tick are armed
C26_Witness ==
    /\ program = "RelayTradingBot"
    /\ loopAt = 2
    /\ Cardinality(timers) = 2
    /\ Len(currentPositions) = 2
    /\ isRunning

\* the trades of the trades file recorded on day d
TradesOfDay(d) ==
    {i \in 1..Len(sessionTrades) : Day(sessionTrades[i].timestamp) = d}

\* C27: the enhanced bot's daily cap across restarts.  state.dailyTrades
\* never exceeds DAILY_LIMIT, no more than DAILY_LIMIT trades are recorded
\* on one day whatever the number of stops and restarts, and every executed
\* trade increments the day's count by exactly 1.
C27_DailyCapAcrossRestart ==
    /\ [](program = "EnhancedBot" =>
            /\ botState.dailyTrades <= DAILY_LIMIT
            /\ \A i \in 1..Len(sessionTrades) :
                    Cardinality(TradesOfDay(Day(sessionTrades[i].timestamp)))
                        <= DAILY_LIMIT)
    /\ [][(program = "EnhancedBot" /\ Len(sessionTrades') = Len(sessionTrades) + 1) =>
            botState'.dailyTrades =
                (IF botState.lastTradeDate = Day(now)
                 THEN botState.dailyTrades ELSE 0) + 1]_vars

\* the cap is reached in the second process of a day: the first three
\* trades of the day are losses (the first process is then blocked and is
\* stopped), the fourth and fifth are executed after the restart
C27_Witness ==
    /\ program = "EnhancedBot"
    /\ sessions = 2
    /\ botState.dailyTrades = DAILY_LIMIT
    /\ botState.lastTradeDate = Day(now)
    /\ Cardinality(TradesOfDay(Day(now))) = DAILY_LIMIT
    /\ botStateFile.dailyTrades = DAILY_LIMIT
    /\ \E i \in 1..Len(sessionTrades) :
            /\ i + 2 < Len(sessionTrades)
            /\ \A j \in i..(i + 2) :
                    /\ sessionTrades[j].status = "CLOSED"
                    /\ ~sessionTrades[j].isWin

\* C28: the enhanced bot's loss halt survives a restart.  When the bot is
\* started again after a stop with MAX_CONSECUTIVE_LOSSES consecutive losses,
\* the consecutive-loss count of the new process is that of the stopped one
\* and checkSafetyLimits still refuses to trade.
C28_LossHaltSurvivesRestart ==
    [][(/\ program = "EnhancedBot"
        /\ exited /\ ~exited'
        /\ consecutiveLosses >= MAX_CONSECUTIVE_LOSSES) =>
            /\ consecutiveLosses' = consecutiveLosses
            /\ ~checkSafetyLimits(botState', consecutiveLosses', now')]_vars

(***************************************************************************)
(* The indicators of analyzeMarket.  Prices are whole dollars; an RSI is   *)
(* in hundredths and an SMA in thousandths of a dollar; NoValue is null or *)
(* undefined.                                                              *)
(***************************************************************************)
MaxSeriesLen == 5
IndicatorPrices == {1, 2, 3, 4, 5}

\* the for loop of calculateRSI over the elements i..last of the series
\* (counted from 1): <<gains, losses>>
RECURSIVE rsiLoop(_, _, _, _, _)
rsiLoop(prices, i, last, gains, losses) ==
    IF i > last THEN <<gains, losses>>
    ELSE LET change == prices[i] - prices[i - 1]
         IN  IF change > 0
             THEN rsiLoop(prices, i + 1, last, gains + change, losses)
             ELSE rsiLoop(prices, i + 1, last, gains, losses - change)

\* avgGain, avgLoss, rs and 100 - (100 / (1 + rs)), from the two sums
rsiOf(sums, period) ==
    LET gains == sums[1]
        losses == sums[2]
    IN  IF losses = 0 THEN 10000
        ELSE 10000 - (10000 * losses) \div (gains + losses)

\* calculateRSI of RelayTradingBot: i from prices.length - period
Relay_calculateRSI(prices, period) ==
    IF Len(prices) < period + 1 THEN 5000
    ELSE rsiOf(rsiLoop(prices, Len(prices) - period + 1, Len(prices), 0, 0),
               period)

\* calculateRSI of RealisticTradingBot: i from 1 to period
calculateRSI(prices, period) ==
    IF Len(prices) < period + 1 THEN NoValue
    ELSE rsiOf(rsiLoop(prices, 2, period + 1, 0, 0), period)

\* slice.reduce((sum, price) => sum + price, 0)
RECURSIVE reduceSum(_)
reduceSum(slice) ==
    IF slice = <<>> THEN 0 ELSE slice[1] + reduceSum(Tail(slice))

\* prices.slice(-period)
sliceLast(prices, period) ==
    SubSeq(prices, Max(1, Len(prices) - period + 1), Len(prices))

\* calculateSMA of RelayTradingBot
Relay_calculateSMA(prices, period) ==
    IF Len(prices) < period
    THEN IF Len(prices) = 0 THEN NoValue ELSE 1000 * prices[Len(prices)]
    ELSE (1000 * reduceSum(sliceLast(prices, period))) \div period

\* calculateSMA of RealisticTradingBot
calculateSMA(prices, period) ==
    IF Len(prices) < period THEN NoValue
    ELSE (1000 * reduceSum(sliceLast(prices, period))) \div period

\* analyzeMarket: the indicators of the series, for one period
analyzeMarket(period) ==
    /\ program \in {"RealisticTradingBot", "RelayTradingBot"}
    /\ analysis' =
        IF program = "RelayTradingBot"
        THEN [period |-> period,
              rsi |-> Relay_calculateRSI(priceSeries, period),
              sma |-> Relay_calculateSMA(priceSeries, period)]
        ELSE [period |-> period,
              rsi |-> calculateRSI(priceSeries, period),
              sma |-> calculateSMA(priceSeries, period)]
    /\ UNCHANGED <<program, config, priceSeries, componentVars, botVars>>

Series == UNION {[1..n -> IndicatorPrices] : n \in 0..MaxSeriesLen}

IndicatorInit ==
    /\ constructor(defaultConfig)
    /\ program \in {"RealisticTradingBot", "RelayTradingBot"}
    /\ priceSeries \in Series

IndicatorNext == \E period \in 1..MaxSeriesLen : analyzeMarket(period)

IndicatorSpec == IndicatorInit /\ [][IndicatorNext]_vars

\* the price changes of the trailing window: the last `period` ones
TrailingChanges(prices, period) ==
    [k \in 1..period |->
        prices[Len(prices) - period + k] - prices[Len(prices) - period + k - 1]]

\* the sum of the rises (sign = 1) or of the falls (sign = -1) of `changes`
RECURSIVE SumOfSign(_, _)
SumOfSign(changes, sign) ==
    IF changes = <<>> THEN 0
    ELSE (IF changes[1] * sign > 0 THEN changes[1] * sign ELSE 0)
            + SumOfSign(Tail(changes), sign)

\* C29: RSI.  The value computed for a series of at least period + 1 prices
\* is that of the last `period` price changes, 100 - 100 / (1 + average gain
\* / average loss), for a shorter series it is the neutral value 50, and it
\* always lies between 0 and 100.
C29_RSI ==
    analysis.period > 0 =>
        /\ analysis.rsi >= 0 /\ analysis.rsi <= 10000
        /\ Len(priceSeries) < analysis.period + 1 => analysis.rsi = 5000
        /\ Len(priceSeries) >= analysis.period + 1 =>
            LET changes == TrailingChanges(priceSeries, analysis.period)
                gain == SumOfSign(changes, 1)
                loss == SumOfSign(changes, -1)
            IN  /\ loss = 0 => analysis.rsi = 10000
                /\ loss > 0 =>
                    /\ (10000 - analysis.rsi) * (gain + loss) <= 10000 * loss
                    /\ 10000 * loss < (10000 - analysis.rsi + 1) * (gain + loss)

\* C30: SMA.  The value computed for a series of at least `period` values
\* is the arithmetic mean of the last `period` of them (3 for 1, 2, 3, 4, 5
\* and period 5), for a shorter series it is the last price of the series.
C30_SMA ==
    analysis.period > 0 =>
        /\ Len(priceSeries) >= analysis.period =>
            LET sum == SumOfSign(sliceLast(priceSeries, analysis.period), 1)
            IN  /\ analysis.sma * analysis.period <= 1000 * sum
                /\ 1000 * sum < (analysis.sma + 1) * analysis.period
        /\ (Len(priceSeries) < analysis.period /\ Len(priceSeries) > 0) =>
            analysis.sma = 1000 * priceSeries[Len(priceSeries)]
        /\ (priceSeries = <<1, 2, 3, 4, 5>> /\ analysis.period = 5) =>
            analysis.sma = 3000

\* the open position whose id is `id`
PositionOf(id) ==
    CHOOSE p \in Range(currentPositions) : p.id = id

\* C31: net effect of an open/close pair in RealisticTradingBot.  The open
\* debits positionSize from the balance of its sub-portfolio and adds one
\* to its activePositions, the close credits positionSize + realizedPnL and
\* takes one from activePositions (so that after the pair the balance is
\* the one before the open plus realizedPnL and activePositions is back to
\* its value), and neither changes another sub-portfolio.
C31_OpenCloseNetEffect ==
    [][program = "RealisticTradingBot" =>
        /\ (Opens /\ Len(currentPositions') = Len(currentPositions) + 1) =>
            LET p == currentPositions'[Len(currentPositions')]
            IN  /\ subPortfolioBalances'[p.portfolioId].balance =
                        subPortfolioBalances[p.portfolioId].balance - p.positionSize
                /\ subPortfolioBalances'[p.portfolioId].activePositions =
                        subPortfolioBalances[p.portfolioId].activePositions + 1
                /\ \A i \in Portfolios \ {p.portfolioId} :
                        subPortfolioBalances'[i] = subPortfolioBalances[i]
        /\ ClosesOne =>
            LET p == PositionOf(LastClosed.id)
            IN  /\ subPortfolioBalances'[p.portfolioId].balance =
                        subPortfolioBalances[p.portfolioId].balance
                            + p.positionSize + LastClosed.realizedPnL
                /\ subPortfolioBalances'[p.portfolioId].activePositions =
                        subPortfolioBalances[p.portfolioId].activePositions - 1
                /\ \A i \in Portfolios \ {p.portfolioId} :
                        subPortfolioBalances'[i] = subPortfolioBalances[i]]_vars

(***************************************************************************)
(* A run of a simulation.                                                  *)
(***************************************************************************)
SimPrices == {44200, 45000, 45225}

\* let capital = ...; let position = null; let trades = []
simBegin(engine) ==
    /\ sim.engine = "none"
    /\ sim' = [simStart EXCEPT !.engine = engine]
    /\ UNCHANGED <<program, config, priceSeries, analysis, botVars, manager,
                   alertSystem, api>>

\* the loop body for the next candle
simCandle(price, signal, otherExit) ==
    /\ sim.engine # "none" /\ sim.finalCapital = NoValue
    /\ sim.candles < MaxCandles
    /\ sim' = simIteration(sim, price, signal, otherExit)
    /\ UNCHANGED <<program, config, priceSeries, analysis, botVars, manager,
                   alertSystem, api>>

\* the data is exhausted: return { capital, trades, ... } / finalCapital
simReturn ==
    /\ sim.engine # "none" /\ sim.finalCapital = NoValue
    /\ sim' = [sim EXCEPT !.finalCapital = sim.capital]
    /\ UNCHANGED <<program, config, priceSeries, analysis, botVars, manager,
                   alertSystem, api>>

SimInit == Init /\ program = "RealisticTradingBot"

SimNext ==
    \/ \E engine \in {"test", "backtest"} : simBegin(engine)
    \/ \E price \in SimPrices, signal \in {"NONE", "BUY", "SELL"},
          otherExit \in BOOLEAN : simCandle(price, signal, otherExit)
    \/ simReturn

SimSpec == SimInit /\ [][SimNext]_vars

\* the sum of the pnl of the recorded trades
RECURSIVE SumPnL(_)
SumPnL(trades) ==
    IF trades = <<>> THEN 0 ELSE trades[1] + SumPnL(Tail(trades))

\* C32: simulation accounting.  The final capital a simulation returns is
\* the initial capital plus the sum of the pnl of its recorded trades, also
\* when the data ends while a position is open.
C32_SimulationAccounting ==
    sim.finalCapital # NoValue =>
        sim.finalCapital = initialCapital + SumPnL(sim.trades)

(***************************************************************************)
(* RelayTradingBot alone, with the clock read three hours after the start  *)
(* (after the cooldown of a loss and before maxRuntime) and six hours      *)
(* after it (at maxRuntime).                                               *)
(***************************************************************************)
RelayClock == <<23, 26, 29>>

\* time passes while the relay runs; nothing else changes
RelayWait ==
    /\ program = "RelayTradingBot"
    /\ ~exited /\ isRunning
    /\ \E i \in 1..(Len(RelayClock) - 1) :
            now = RelayClock[i] /\ now' = RelayClock[i + 1]
    /\ UNCHANGED <<staticVars, loopAt, idClock, isRunning, exited, riskVars,
                   tradingData, relayVars, enhVars>>

RelayInit == Init /\ program = "RelayTradingBot"

RelayNext ==
    \/ startTrading
    \/ \E signals \in SUBSET Range(RelaySymbols), moves \in MoveSeqs :
            tradingLoop(signals, moves)
    \/ \E id \in timers, move \in PriceMoves : timerClose(id, move)
    \/ \E moves \in MoveSeqs : signalShutdown(moves)
    \/ shutdownSave
    \/ shutdownExit
    \/ newSession
    \/ RelayWait

RelaySpec == RelayInit /\ [][RelayNext]_vars

\* the relay is locked out: the loss limit is reached and nothing is open
LockedOut ==
    /\ program = "RelayTradingBot"
    /\ consecutiveLosses >= maxConsecutiveLosses
    /\ currentPositions = <<>>

Unaccounted ==
    dailyStats.tradesCount - dailyStats.wins - dailyStats.losses
        - Len(currentPositions)

\* a step that opens: tradesCount goes up by the positions added, wins and
\* losses stay; a step that closes: wins + losses go up by the positions
\* removed, neither goes down, and tradesCount stays
CountersStep ==
    LET opened == Len(currentPositions') - Len(currentPositions)
    IN  /\ opened >= 0 =>
            /\ dailyStats'.tradesCount = dailyStats.tradesCount + opened
            /\ dailyStats'.wins = dailyStats.wins
            /\ dailyStats'.losses = dailyStats.losses
        /\ opened < 0 =>
            /\ dailyStats'.tradesCount = dailyStats.tradesCount
            /\ dailyStats'.wins >= dailyStats.wins
            /\ dailyStats'.losses >= dailyStats.losses
            /\ (dailyStats'.wins + dailyStats'.losses)
                   - (dailyStats.wins + dailyStats.losses) = -opened

C34_UntilFirstReset ==
    /\ [](program = "RealisticTradingBot" /\ dailyStats.date = Day(Clock[1])
             => Unaccounted = 0)
    /\ [][(program = "RealisticTradingBot"
             /\ dailyStats'.date = dailyStats.date) => CountersStep]_vars

(***************************************************************************)
(* Daily risk of RealisticTradingBot                                       *)
(***************************************************************************)
\* positionSize / totalCapital, in parts per million
riskOf(position) == (position.positionSize * 100) \div (totalCapital \div 10000)

\* C35: daily risk gate.  In RealisticTradingBot a position is opened only
\* in a state where dailyStats.totalRisk < maxDailyRisk; each open increases
\* totalRisk by exactly positionSize / totalCapital of the position opened,
\* a step that opens nothing and is not the daily reset leaves totalRisk as
\* it was, and totalRisk decreases only at the daily reset, to 0.
C35_DailyRiskGate ==
    [][program = "RealisticTradingBot" =>
        LET n == Len(currentPositions)
        IN  /\ Len(currentPositions') > n =>
                /\ dailyStats.totalRisk < maxDailyRisk
                /\ Len(currentPositions') = n + 1
                /\ dailyStats'.totalRisk =
                       dailyStats.totalRisk + riskOf(currentPositions'[n + 1])
                /\ riskOf(currentPositions'[n + 1]) > 0
            /\ (Len(currentPositions') <= n /\ dailyStats'.date = dailyStats.date)
                   => dailyStats'.totalRisk = dailyStats.totalRisk
            /\ dailyStats'.totalRisk # dailyStats.totalRisk /\ Len(currentPositions') <= n
                   => (dailyStats'.totalRisk = 0 /\ dailyStats'.date # dailyStats.date)]_vars

\* positions were opened until the risk of the day reached the limit
C35_Witness ==
    /\ program = "RealisticTradingBot"
    /\ dailyStats.totalRisk >= maxDailyRisk
    /\ Len(currentPositions) >= 2

\* the loop of startTrading iterates every 30 s while isRunning, and an
\* armed setTimeout fires
HandoffSpec ==
    /\ RelaySpec
    /\ WF_vars(\E signals \in SUBSET Range(RelaySymbols), moves \in MoveSeqs :
                    tradingLoop(signals, moves))
    /\ WF_vars(\E id \in timers, move \in PriceMoves : timerClose(id, move))

\* C36: relay handoff.  In RelayTradingBot, once the runtime has reached
\* maxRuntime the loop starts gracefulShutdown (isRunning becomes false); a
\* position is opened only while isRunning is true and the runtime is below
\* maxRuntime, so none is opened from the moment gracefulShutdown has set
\* isRunning to false, whether the runtime check or SIGINT/SIGTERM started
\* it; and the process exits only after this process has written the
\* snapshot.
C36_RelayHandoff ==
    /\ (program = "RelayTradingBot" /\ ~exited /\ isRunning
            /\ now - startTime >= maxRuntime) ~> ~isRunning
    /\ [][program = "RelayTradingBot" =>
            /\ idClock' > idClock =>
                    (isRunning /\ now - startTime < maxRuntime)
            /\ (isRunning /\ ~isRunning') =>
                    (shutdown' = "waiting" /\ idClock' = idClock)
            /\ (~exited /\ exited') =>
                    /\ stateFile.exists
                    /\ stateFile.lastHandoff >= startTime
                    /\ shutdown = "committing"]_vars

\* the first relay process has reached maxRuntime, handed off and exited
C36_Witness ==
    /\ program = "RelayTradingBot"
    /\ exited /\ sessions = 1
    /\ now - startTime >= maxRuntime
    /\ stateFile.exists /\ stateFile.lastHandoff = now

(***************************************************************************)
(* RelayTradingBot with a long pause between two sessions and a state file *)
(* that is damaged while no process runs.                                  *)
(***************************************************************************)
\* a session from 23 h, its end at maxRuntime, and a start 24 h after that
StaleClock == <<23, 29, 53>>

StaleWait ==
    /\ program = "RelayTradingBot"
    /\ exited \/ isRunning
    /\ \E i \in 1..(Len(StaleClock) - 1) :
            now = StaleClock[i] /\ now' = StaleClock[i + 1]
    /\ UNCHANGED <<staticVars, loopAt, idClock, isRunning, exited, riskVars,
                   tradingData, relayVars, enhVars>>

\* state.json is left with a text that JSON.parse rejects
damageStateFile ==
    /\ program = "RelayTradingBot"
    /\ exited /\ stateFile.exists /\ parses(stateFile)
    /\ stateFile' = [exists |-> TRUE]
    /\ UNCHANGED <<staticVars, loopAt, now, idClock, isRunning, exited, riskVars,
                   tradingData, timers, shutdown, startTime, sessions, enhVars>>

StaleNext ==
    \/ startTrading
    \/ \E signals \in SUBSET Range(RelaySymbols), moves \in MoveSeqs :
            tradingLoop(signals, moves)
    \/ \E id \in timers, move \in PriceMoves : timerClose(id, move)
    \/ \E moves \in MoveSeqs : signalShutdown(moves)
    \/ shutdownSave
    \/ shutdownExit
    \/ newSession
    \/ StaleWait
    \/ damageStateFile

StaleSpec == RelayInit /\ [][StaleNext]_vars

\* the fields of the state that a snapshot carries are those of `st`
RestoredFrom(st) ==
    /\ currentPositions' = st.currentPositions
    /\ dailyStats' = st.dailyStats
    /\ consecutiveLosses' = st.consecutiveLosses
    /\ lastLossTime' = st.lastLossTime
    /\ subPortfolioBalances' = st.subPortfolioBalances

\* C37: stale or unreadable snapshot.  When a relay process starts and the
\* state file does not parse, or its lastHandoff is 24 h old or more, the
\* positions, loss counters, daily stats and balances of the process are all
\* those of a freshly constructed bot; when the file parses and is younger,
\* they are all those of the file: never some of the one and some of the
\* other.
C37_StaleSnapshotIgnored ==
    [][(program = "RelayTradingBot" /\ exited /\ ~exited') =>
        IF ~stateFile.exists THEN RestoredFrom(freshState(now))
        ELSE IF ~parses(stateFile) THEN RestoredFrom(freshState(now))
        ELSE IF now - stateFile.lastHandoff >= maxStateAge
             THEN RestoredFrom(freshState(now))
             ELSE RestoredFrom(stateFile)]_vars

\* the second session has started from a snapshot of 24 h or more that holds
\* a loss and a position, and has none of them
C37_Witness ==
    /\ program = "RelayTradingBot"
    /\ sessions = 2 /\ ~exited
    /\ parses(stateFile)
    /\ now - stateFile.lastHandoff >= maxStateAge
    /\ stateFile.consecutiveLosses > 0
    /\ stateFile.currentPositions # <<>>
    /\ consecutiveLosses = 0
    /\ currentPositions = <<>>

\* the second session has started from a file that does not parse
C37_Unparsable ==
    /\ program = "RelayTradingBot"
    /\ sessions = 2 /\ ~exited
    /\ stateFile.exists /\ ~parses(stateFile)

(***************************************************************************)
(* ConfigurationManager: set, restoreVersion and import, with              *)
(* options.validation enabled (the default).  manager.threw tells whether  *)
(* the last call ended by an exception.                                    *)
(***************************************************************************)
MaxConfigCalls == 3
backupCount == 10

\* the key paths a caller sets and the values given: trading.dailyTargetMax,
\* trading.stopLossPercent and trading.subPortfolios
SetKeys == {"dailyTargetMax", "stopLossPercent", "subPortfolios"}
SetValues == {4, 20, 40, 11}

\* the configurations a caller imports: those of Configs and a valid one
\* that differs from the defaults
ImportedConfigs == Configs \cup {[defaultConfig EXCEPT !.dailyTargetMax = 40]}

\* saveConfigHistory: unshift, keep the backupCount newest
saveConfigHistory(m) ==
    LET history == <<m.currentConfig>> \o m.configHistory
    IN  [m EXCEPT !.configHistory =
            SubSeq(history, 1, Min(Len(history), backupCount))]

\* persistConfiguration: the environment file, then the history
persistConfiguration(m) ==
    saveConfigHistory([m EXCEPT !.envFile = <<m.currentConfig>>])

emit(m, event) == [m EXCEPT !.events = Append(@, event)]

\* set(keyPath, value, persist)
set(m, keyPath, value, persist) ==
    LET oldValue == m.currentConfig[keyPath]
        changed == [m EXCEPT !.currentConfig[keyPath] = value]
    IN  IF ConfigurationError(changed.currentConfig)
        THEN [changed EXCEPT !.currentConfig[keyPath] = oldValue, !.threw = TRUE]
        ELSE emit(IF persist THEN persistConfiguration(changed) ELSE changed,
                  "configUpdated")

\* restoreVersion(version): versions count from 0
restoreVersion(m, version) ==
    IF version < 0 \/ version >= Len(m.configHistory)
    THEN [m EXCEPT !.threw = TRUE]
    ELSE LET restored ==
                 [m EXCEPT !.currentConfig = m.configHistory[version + 1]]
         IN  IF ConfigurationError(restored.currentConfig)
             THEN [restored EXCEPT !.threw = TRUE]
             ELSE emit(persistConfiguration(restored), "configRestored")

\* import(data) of data with a configuration: createBackup, then the
\* assignment of state.currentConfig, then the validation
import(m, configuration) ==
    LET imported == [m EXCEPT !.backups = @ + 1,
                              !.currentConfig = configuration]
    IN  IF ConfigurationError(imported.currentConfig)
        THEN [imported EXCEPT !.threw = TRUE]
        ELSE emit(persistConfiguration(imported), "configImported")

\* a call of the manager's interface begins
called == [manager EXCEPT !.calls = @ + 1, !.threw = FALSE]

Manager_set(keyPath, value, persist) ==
    /\ manager.calls < MaxConfigCalls
    /\ manager' = set(called, keyPath, value, persist)
    /\ UNCHANGED <<program, config, priceSeries, analysis, botVars, sim,
                   alertSystem, api>>

Manager_restoreVersion(version) ==
    /\ manager.calls < MaxConfigCalls
    /\ manager' = restoreVersion(called, version)
    /\ UNCHANGED <<program, config, priceSeries, analysis, botVars, sim,
                   alertSystem, api>>

Manager_import(configuration) ==
    /\ manager.calls < MaxConfigCalls
    /\ manager' = import(called, configuration)
    /\ UNCHANGED <<program, config, priceSeries, analysis, botVars, sim,
                   alertSystem, api>>

ManagerNext ==
    \/ \E keyPath \in SetKeys, value \in SetValues, persist \in BOOLEAN :
            Manager_set(keyPath, value, persist)
    \/ \E version \in 0..MaxConfigCalls : Manager_restoreVersion(version)
    \/ \E configuration \in ImportedConfigs : Manager_import(configuration)

ManagerSpec == SimInit /\ [][ManagerNext]_vars

\* C38: configuration changes are all-or-nothing.  A call of set,
\* restoreVersion or import that throws leaves state.currentConfig as it was
\* before the call, writes neither the environment file nor the history, and
\* emits no event.
C38_ConfigChangeAllOrNothing ==
    [][(manager'.calls = manager.calls + 1 /\ manager'.threw) =>
            /\ manager'.currentConfig = manager.currentConfig
            /\ manager'.envFile = manager.envFile
            /\ manager'.configHistory = manager.configHistory
            /\ manager'.events = manager.events]_vars

\* the same of the calls of set and restoreVersion alone
C38_SetAndRestore ==
    [][(manager'.calls = manager.calls + 1 /\ manager'.threw
            /\ manager'.backups = manager.backups) =>
            /\ manager'.currentConfig = manager.currentConfig
            /\ manager'.envFile = manager.envFile
            /\ manager'.configHistory = manager.configHistory
            /\ manager'.events = manager.events]_vars

(***************************************************************************)
(* AlertSystem: sendAlert calls that overlap.  A call runs from its start  *)
(* to `await Promise.allSettled(promises)` in one step (the filters, the   *)
(* rate limits, the start of the deliveries) and from there to its end in  *)
(* another (updateStats, logAlert), whenever the deliveries have settled.  *)
(* One delivery service is enabled; no filter of shouldSendAlert applies.  *)
(***************************************************************************)
MaxAlerts == 3

\* config.rateLimits: the system is constructed with maxAlertsPerHour 2 (the
\* default is 10); cooldownMinutes and duplicateSuppressionMinutes are the
\* defaults
maxAlertsPerHour == 2
cooldownMinutes == 15
duplicateSuppressionMinutes == 60
hourMinutes == 60

AlertTypes == {"INFO", "EMERGENCY"}
AlertMessages == {"a", "b"}

checkRateLimits(a, type, message) ==
    LET isDuplicate ==
            \E r \in a.recentAlerts :
                /\ r.message = message
                /\ a.time - r.timestamp < duplicateSuppressionMinutes
    IN  /\ ~(a.time - a.lastAlertTime < cooldownMinutes /\ type # "EMERGENCY")
        /\ ~(a.alertsSentThisHour >= maxAlertsPerHour /\ type # "EMERGENCY")
        /\ ~(isDuplicate /\ type # "EMERGENCY")

updateStats(a, alert) ==
    LET recent == a.recentAlerts \cup
                      {[message |-> alert.message, timestamp |-> a.time]}
    IN  [a EXCEPT
            !.alertsSentThisHour = @ + 1,
            !.lastAlertTime = a.time,
            !.recentAlerts = {r \in recent : r.timestamp > a.time - hourMinutes}]

\* sendAlert(type, title, message) up to its await
sendAlert(type, message) ==
    /\ Len(alertSystem.sent) < MaxAlerts
    /\ alertSystem' =
          IF checkRateLimits(alertSystem, type, message)
          THEN [alertSystem EXCEPT
                  !.pending = @ \cup {[id |-> Len(alertSystem.sent) + 1,
                                       type |-> type, message |-> message]},
                  !.sent = Append(@, [type |-> type, time |-> alertSystem.time]),
                  !.overlapped = @ \/ alertSystem.pending # {}]
          ELSE alertSystem
    /\ UNCHANGED <<program, config, priceSeries, analysis, botVars, sim, manager,
                   api>>

\* the deliveries of a call have settled: the rest of sendAlert
sendAlertResume(alert) ==
    /\ alert \in alertSystem.pending
    /\ alertSystem' = [updateStats(alertSystem, alert) EXCEPT
                          !.pending = @ \ {alert}]
    /\ UNCHANGED <<program, config, priceSeries, analysis, botVars, sim, manager,
                   api>>

\* the callback of the setInterval of startHourlyReset
startHourlyReset ==
    /\ alertSystem.time - constructedAt >= hourMinutes * (alertSystem.resets + 1)
    /\ alertSystem' = [alertSystem EXCEPT
                          !.alertsSentThisHour = 0,
                          !.resets = @ + 1,
                          !.sentAtReset = Len(alertSystem.sent)]
    /\ UNCHANGED <<program, config, priceSeries, analysis, botVars, sim, manager,
                   api>>

\* time passes; an interval callback that is due runs first
alertWait ==
    /\ alertSystem.time - constructedAt < hourMinutes * (alertSystem.resets + 1)
    /\ \E i \in 1..(Len(AlertClock) - 1) :
            /\ alertSystem.time = AlertClock[i]
            /\ alertSystem' = [alertSystem EXCEPT !.time = AlertClock[i + 1]]
    /\ UNCHANGED <<program, config, priceSeries, analysis, botVars, sim, manager,
                   api>>

AlertNext ==
    \/ \E type \in AlertTypes, message \in AlertMessages : sendAlert(type, message)
    \/ \E alert \in alertSystem.pending : sendAlertResume(alert)
    \/ startHourlyReset
    \/ alertWait

AlertSpec == SimInit /\ [][AlertNext]_vars

\* every alert but an EMERGENCY is at least cooldownMinutes after the alert
\* sent before it, and at most maxAlertsPerHour of them are sent since the
\* last hourly reset
RateLimited ==
    /\ \A i \in 2..Len(alertSystem.sent) :
            alertSystem.sent[i].type # "EMERGENCY" =>
                alertSystem.sent[i].time - alertSystem.sent[i - 1].time
                    >= cooldownMinutes
    /\ Cardinality({i \in (alertSystem.sentAtReset + 1)..Len(alertSystem.sent) :
                        alertSystem.sent[i].type # "EMERGENCY"})
            <= maxAlertsPerHour

\* C39: alert rate limiting under concurrency.  Whatever the interleaving of
\* overlapping sendAlert calls, no alert other than an EMERGENCY is sent
\* within cooldownMinutes of the alert sent before it, and at most
\* maxAlertsPerHour of them are sent between two hourly resets.
C39_AlertRateLimits == [](RateLimited)

\* the same as long as no call has started while another awaited
C39_OneCallAtATime == ~alertSystem.overlapped => RateLimited

(***************************************************************************)
(* BinanceAPI: connectWebSocket, the 'close' event of a socket, the        *)
(* reconnect timer of its handler, and disconnect().  state.websockets is  *)
(* a sequence of [stream, ws] entries, ws the number of the socket.        *)
(***************************************************************************)
MaxSockets == 4
Streams == {"btcusdt@kline_1m", "ethusdt@kline_1m"}

\* the entries of the Map without the one of `stream`
without(websockets, stream) ==
    SelectSeq(websockets, LAMBDA e : e.stream # stream)

\* connectWebSocket(streams, ...): new WebSocket(wsUrl), stored under streamStr
connectWebSocket(a, stream) ==
    [a EXCEPT
        !.sockets = Append(@, [stream |-> stream, readyState |-> "OPEN"]),
        !.websockets = Append(without(@, stream),
                              [stream |-> stream, ws |-> Len(a.sockets) + 1])]

\* disconnect(): ws.close() of every socket of the Map, then clear()
disconnect(a) ==
    [a EXCEPT
        !.sockets = [n \in DOMAIN a.sockets |->
                        IF /\ \E e \in Range(a.websockets) : e.ws = n
                           /\ a.sockets[n].readyState = "OPEN"
                        THEN [a.sockets[n] EXCEPT !.readyState = "CLOSING"]
                        ELSE a.sockets[n]],
        !.websockets = <<>>,
        !.disconnected = TRUE]

\* the bot subscribes a stream
Connect(stream) ==
    /\ ~api.disconnected
    /\ Len(api.sockets) < MaxSockets
    /\ \A e \in Range(api.websockets) : e.stream # stream
    /\ api' = connectWebSocket(api, stream)
    /\ UNCHANGED <<program, config, priceSeries, analysis, botVars, sim, manager,
                   alertSystem>>

\* ws.on('close'): the server or the network has dropped the socket, or its
\* close() has completed; the handler arms the reconnect timer
SocketClose(n) ==
    /\ n \in DOMAIN api.sockets
    /\ api.sockets[n].readyState \in {"OPEN", "CLOSING"}
    /\ api' = [api EXCEPT !.sockets[n].readyState = "CLOSED",
                          !.reconnects = @ \cup {api.sockets[n].stream}]
    /\ UNCHANGED <<program, config, priceSeries, analysis, botVars, sim, manager,
                   alertSystem>>

\* the setTimeout of the 'close' handler fires: connectWebSocket again
Reconnect(stream) ==
    /\ stream \in api.reconnects
    /\ Len(api.sockets) < MaxSockets
    /\ api' = [connectWebSocket(api, stream) EXCEPT !.reconnects = @ \ {stream}]
    /\ UNCHANGED <<program, config, priceSeries, analysis, botVars, sim, manager,
                   alertSystem>>

Disconnect ==
    /\ ~api.disconnected
    /\ api' = disconnect(api)
    /\ UNCHANGED <<program, config, priceSeries, analysis, botVars, sim, manager,
                   alertSystem>>

ApiNext ==
    \/ \E stream \in Streams : Connect(stream)
    \/ \E n \in 1..MaxSockets : SocketClose(n)
    \/ \E stream \in Streams : Reconnect(stream)
    \/ Disconnect

ApiSpec == SimInit /\ [][ApiNext]_vars

\* C40: clean disconnect of the exchange client.  Once disconnect() has been
\* called no WebSocket is created and state.websockets stays empty: the
\* reconnect timer of a 'close' handler does not reopen a stream.
C40_CleanDisconnect ==
    [][api.disconnected =>
        /\ Len(api'.sockets) = Len(api.sockets)
        /\ api'.websockets = <<>>]_vars
====
